---- MODULE Spec2Model ----
(***************************************************************************)
(* Model of the tab registry and the session persistence of NotepadApp     *)
(* (src/TEXTEDITOR.py).                                                    *)
(*                                                                         *)
(* Python positions are 0-based and are kept 0-based here: the tab at      *)
(* Python position i is tabs[i + 1].  None is modelled as -1 for an index  *)
(* and as "" for a path.  A Python str is a TLA+ string.                   *)
(*                                                                         *)
(* The ttk notebook keeps its own selected position (nb_current, -1 when   *)
(* it has no tab).  A <<NotebookTabChanged>> event the notebook queues      *)
(* during a handler is delivered before the next user event, so the        *)
(* on_tab_change it triggers is folded into the handler that caused it.    *)
(***************************************************************************)
EXTENDS Integers, Sequences, FiniteSets, TLC

VARIABLES
    phase,                    \* "running": a process is alive; "closed": none
    tabs,                     \* NotepadApp.tabs
    current_tab_index,        \* NotepadApp.current_tab_index
    nb_current,               \* position the ttk notebook has selected
    drag_start_index,         \* NotepadApp._drag_start_index
    dragging,                 \* button 1 is held down since a press on the notebook
    used_text_tab_numbers,    \* NotepadApp.used_text_tab_numbers
    used_drawing_tab_numbers, \* NotepadApp.used_drawing_tab_numbers
    dark_mode,                \* NotepadApp.dark_mode
    timers,                   \* calls root.after holds: the delay of each, in ms
    session_file,             \* content of notepad_session.json
    sidecars,                 \* files on disk (sidecars, saved drawings): path -> content
    now,                      \* int(time.time())
    runs,                     \* number of processes started so far
    saved,                    \* history: the registry at the last save_session
    last                      \* history: the last operation and its arguments

vars == <<phase, tabs, current_tab_index, nb_current, drag_start_index,
          dragging, used_text_tab_numbers, used_drawing_tab_numbers, dark_mode, timers,
          session_file, sidecars, now, runs, saved, last>>

----------------------------------------------------------------------------
(* Bounds *)

MaxTabs == 3          \* open tabs, in the specifications of one process
MaxSessionTabs == 2   \* open tabs, in the specification with sessions
MaxNum == 3           \* highest tab number a user-made tab is given
MaxText == 1          \* characters the user types into one tab
MaxTime == 1          \* seconds that pass
MaxRuns == 2          \* processes started
MaxOps == 2           \* draw calls made on one image
MaxFewOps == 1        \* draw calls made on one image, in the specifications with themes
MaxDrawings == 2      \* open drawing tabs, in the specification of the themes
MaxFormats == 3       \* format tags made in one text widget
MaxHighlights == 2    \* highlight tags made in one text widget
MaxDocLen == 4        \* characters of a text that is edited
MaxStyleTags == 2     \* format and highlight tags made in one text widget together
MaxEditTags == 1      \* tags of each kind on a text that is edited

----------------------------------------------------------------------------
(* Inputs *)

\* files the user can pick in the open dialog: path, basename, content
OpenableFiles == { [path |-> "/home/u/notes.txt", base |-> "notes.txt", content |-> "a"] }

\* characters the user can type
Keys == {"a"}

\* positions of the pointer over a canvas (event.x, event.y)
Points == { <<1, 1>>, <<4, 3>> }

\* values of the Mode radio buttons
Modes == { "pen", "line", "rect", "oval" }

\* themes the theme dialog offers
Themes == { "light", "dark", "sepia", "blue", "green" }

\* names the user can give in the rename dialog ("": the dialog is cancelled)
NewNames == { "", "Notes" }

\* files with enough text to select from, for the formatting operations
Documents == { [path |-> "/home/u/doc.txt", base |-> "doc.txt", content |-> "abcd"] }

\* keys the user types into a text that is edited
EditKeys == { "a", "." }

\* words the spell checker suggests
Suggestions == { "a" }

\* colours of the highlight palette
HighlightColors == { "#FFFF00", "#00FF00" }

\* paths the user can give in the save dialog of a drawing
DrawingFiles == { "/home/u/sketch.png" }

----------------------------------------------------------------------------
(* Python and Tk primitives *)

\* str.startswith
StartsWith(s, prefix) ==
    Len(s) >= Len(prefix) /\ SubSeq(s, 1, Len(prefix)) = prefix

\* s[i] of a Python list, as a position of the sequence: a negative i counts
\* from the end
PyPosition(s, i) == IF i < 0 THEN Len(s) + i + 1 ELSE i + 1

\* list.pop(i), as the list that is left
Pop(s, i) == SubSeq(s, 1, i) \o SubSeq(s, i + 2, Len(s))

\* list.insert(i, x)
ListInsert(s, i, x) ==
    LET k == IF i > Len(s) THEN Len(s) ELSE i
    IN  SubSeq(s, 1, k) \o <<x>> \o SubSeq(s, k + 1, Len(s))

\* ttk notebook: selected position after forget(index)
NbForget(cur, n, index) ==
    IF index = cur
    THEN IF index + 1 < n THEN index
         ELSE index - 1
    ELSE IF index < cur THEN cur - 1 ELSE cur

\* ttk notebook: selected position after insert(new_index, tab) of the tab
\* that is at position old_index
NbMove(cur, old_index, new_index) ==
    IF cur = old_index THEN new_index
    ELSE IF new_index <= cur /\ cur < old_index THEN cur + 1
    ELSE IF old_index < cur /\ cur <= new_index THEN cur - 1
    ELSE cur

\* tab.content.get("1.0", tk.END): the text and the newline Tk ends it with
GetToEnd(text) == text \o "\n"

\* canvas.delete(tag): the items that are left
DeleteTag(items, tag) == SelectSeq(items, LAMBDA item : item.tags # tag)

\* dict.get(key, default)
DictGet(dict, key, default) ==
    IF key \in DOMAIN dict THEN dict[key] ELSE default

\* the offsets of a tag after text_widget.insert(index, chars) with no tag
\* list: the characters from index on move up, and the new characters get
\* the tag when the characters on both sides of index have it
TagAfterInsert(tagged, index, n) ==
    { c \in tagged : c < index }
        \cup { c + n : c \in { d \in tagged : d >= index } }
        \cup (IF (index - 1) \in tagged /\ index \in tagged
              THEN index..(index + n - 1) ELSE {})

\* the offsets of a tag after text_widget.delete(index1, index2)
TagAfterDelete(tagged, index1, index2) ==
    { c \in tagged : c < index1 }
        \cup { c - (index2 - index1) : c \in { d \in tagged : d >= index2 } }

\* text_widget.insert(index, chars) on the Text widget of the tab t
text_insert(t, index, chars) ==
    [t EXCEPT
        !.text = SubSeq(t.text, 1, index) \o chars \o SubSeq(t.text, index + 1, Len(t.text)),
        !.tags = [k \in 1..Len(t.tags) |->
                    [t.tags[k] EXCEPT !.chars = TagAfterInsert(@, index, Len(chars))]],
        !.highlights = [k \in 1..Len(t.highlights) |->
                    [t.highlights[k] EXCEPT !.chars = TagAfterInsert(@, index, Len(chars))]]]

\* text_widget.delete(index1, index2) on the Text widget of the tab t
text_delete(t, index1, index2) ==
    [t EXCEPT
        !.text = SubSeq(t.text, 1, index1) \o SubSeq(t.text, index2 + 1, Len(t.text)),
        !.tags = [k \in 1..Len(t.tags) |->
                    [t.tags[k] EXCEPT !.chars = TagAfterDelete(@, index1, index2)]],
        !.highlights = [k \in 1..Len(t.highlights) |->
                    [t.highlights[k] EXCEPT !.chars = TagAfterDelete(@, index1, index2)]]]

\* string.punctuation (but the grave accent, which no text here holds) and
\* the characters str.isspace accepts
punctuation ==
    { "!", "\"", "#", "$", "%", "&", "'", "(", ")", "*", "+", ",", "-", ".",
      "/", ":", ";", "<", "=", ">", "?", "@", "[", "\\", "]", "^", "_",
      "{", "|", "}", "~" }

isspace(char) == char \in { " ", "\t", "\n", "\r", "\f" }

----------------------------------------------------------------------------
(* class Tab *)

\* Image.new("RGB", size, color): a bitmap is the colour it was filled with
\* and the ImageDraw calls made on it since, in order
Image_new(color) == [ fill |-> color, ops |-> <<>> ]

\* the fields of a DrawingCanvas other than its image, as the constructor
\* sets them before it calls set_dark_mode; pressed_ops is history: the
\* number of draw calls the image held at the last press
NewCanvas(dark_mode_arg) ==
    [ dark_mode |-> dark_mode_arg,
      drawing |-> FALSE,
      brush_size |-> 3,
      brush_color |-> IF dark_mode_arg THEN "#FFFFFF" ELSE "#000000",
      is_eraser |-> FALSE,
      last |-> <<0, 0>>,
      start |-> <<0, 0>>,
      mode |-> "pen",
      bg |-> "white",
      items |-> <<>>,
      pressed_ops |-> 0 ]

\* a Tab before its content is made.  text and tags are the characters and
\* the format tags and the highlight tags (lowest priority first) of the
\* Text widget of a text tab;
\* image and canvas are the DrawingCanvas of a drawing tab.
Tab(name, is_drawing) ==
    [ name |-> name,
      is_drawing |-> is_drawing,
      tab_number |-> 0,
      file_path |-> "",
      auto_save_path |-> "",
      text |-> "",
      tags |-> <<>>,
      highlights |-> <<>>,
      image |-> Image_new(<<>>),
      canvas |-> NewCanvas(FALSE),
      drawing_text |-> "",
      linked_text_tab_name |-> "",
      linked_drawing_tab_name |-> "" ]

----------------------------------------------------------------------------
(* class DrawingCanvas: the operations take the tab t that owns the canvas *)

\* int(c, 16) of one hexadecimal digit
HexValue(c) ==
    CASE c = "0" -> 0 [] c = "1" -> 1 [] c = "2" -> 2 [] c = "3" -> 3
      [] c = "4" -> 4 [] c = "5" -> 5 [] c = "6" -> 6 [] c = "7" -> 7
      [] c = "8" -> 8 [] c = "9" -> 9
      [] c \in {"a", "A"} -> 10 [] c \in {"b", "B"} -> 11
      [] c \in {"c", "C"} -> 12 [] c \in {"d", "D"} -> 13
      [] c \in {"e", "E"} -> 14 [] c \in {"f", "F"} -> 15

RECURSIVE LStripHash(_)
\* hex_color.lstrip('#')
LStripHash(h) ==
    IF Len(h) > 0 /\ SubSeq(h, 1, 1) = "#" THEN LStripHash(SubSeq(h, 2, Len(h))) ELSE h

\* int(hex_color[i:i+2], 16), i 0-based
HexByte(h, i) == 16 * HexValue(SubSeq(h, i + 1, i + 1)) + HexValue(SubSeq(h, i + 2, i + 2))

hex_to_rgb(hex_color) ==
    LET h == LStripHash(hex_color)
    IN  << HexByte(h, 0), HexByte(h, 2), HexByte(h, 4) >>

set_dark_mode(t, dark_mode_arg) ==
    [t EXCEPT !.canvas.dark_mode = dark_mode_arg,
              !.canvas.bg = IF dark_mode_arg THEN "#1e1e1e" ELSE "#ffffff",
              !.image = Image_new(IF dark_mode_arg THEN <<30, 30, 30>> ELSE <<255, 255, 255>>),
              !.canvas.items = <<>>,
              !.canvas.brush_color = IF dark_mode_arg THEN "#FFFFFF" ELSE "#000000"]

\* DrawingCanvas.__init__
DrawingCanvas(t, dark_mode_arg) ==
    set_dark_mode(
        [t EXCEPT !.canvas = NewCanvas(dark_mode_arg),
                  !.image = Image_new(IF dark_mode_arg THEN <<30, 30, 30>>
                                      ELSE <<255, 255, 255>>)],
        dark_mode_arg)

theme_colors ==
    [ light |-> "#ffffff", dark |-> "#1e1e1e", sepia |-> "#f4eae0",
      blue |-> "#e3f2fd", green |-> "#e8f5e9" ]

rgb_colors ==
    [ light |-> <<255, 255, 255>>, dark |-> <<30, 30, 30>>, sepia |-> <<244, 234, 224>>,
      blue |-> <<227, 242, 253>>, green |-> <<232, 245, 233>> ]

\* set_theme; canvas_theme, which nothing reads, is left out
set_theme(t, theme) ==
    [t EXCEPT !.canvas.bg = DictGet(theme_colors, theme, "#ffffff"),
              !.image = Image_new(DictGet(rgb_colors, theme, <<255, 255, 255>>)),
              !.canvas.items = <<>>]

toggle_eraser(t) == [t EXCEPT !.canvas.is_eraser = ~t.canvas.is_eraser]

\* a Mode radio button is chosen: mode_var takes its value
select_mode(t, mode) == [t EXCEPT !.canvas.mode = mode]

clear_canvas(t) ==
    [t EXCEPT !.image = Image_new(IF t.canvas.dark_mode THEN <<30, 30, 30>>
                                  ELSE <<255, 255, 255>>),
              !.canvas.items = <<>>]

on_mouse_press(t, p) ==
    [t EXCEPT !.canvas.drawing = TRUE,
              !.canvas.start = p,
              !.canvas.last = p,
              !.canvas.items = DeleteTag(t.canvas.items, "preview"),
              !.canvas.pressed_ops = Len(t.image.ops)]

\* "Calculate color based on eraser and dark mode"
color_rgb(t) ==
    IF t.canvas.is_eraser
    THEN IF t.canvas.dark_mode THEN <<30, 30, 30>> ELSE <<255, 255, 255>>
    ELSE hex_to_rgb(t.canvas.brush_color)

\* an ImageDraw call and a canvas item
DrawOp(shape, from, to, fill, width) ==
    [ shape |-> shape, from |-> from, to |-> to, fill |-> fill, width |-> width ]

CanvasItem(shape, from, to, color, width, tags) ==
    [ shape |-> shape, from |-> from, to |-> to, color |-> color, width |-> width,
      tags |-> tags ]

\* a move that rasterizes the shape it previews
Mut_on_mouse_move_draws_preview(t, p) ==
    LET c == t.canvas
    IN  IF ~c.drawing THEN t
        ELSE [t EXCEPT !.image.ops = Append(@, DrawOp("line", c.start, p, color_rgb(t), c.brush_size)),
                       !.canvas.items = Append(DeleteTag(c.items, "preview"),
                           CanvasItem("line", c.start, p, c.brush_color, c.brush_size, "preview")),
                       !.canvas.last = IF c.mode = "pen" THEN p ELSE c.last]

\* a move that draws every pen segment from the press point
Mut_on_mouse_move_from_start(t, p) ==
    LET c == t.canvas
    IN  IF ~c.drawing THEN t
        ELSE IF c.mode = "pen"
        THEN [t EXCEPT !.image.ops = Append(@, DrawOp("line", c.start, p, color_rgb(t), c.brush_size)),
                       !.canvas.last = p]
        ELSE [t EXCEPT !.canvas.items = Append(DeleteTag(c.items, "preview"),
                           CanvasItem(c.mode, c.start, p, c.brush_color, c.brush_size, "preview"))]

on_mouse_move(t, p) ==
    LET c == t.canvas
    IN  IF ~c.drawing THEN t
        ELSE IF c.mode = "pen"
        THEN LET canvas_draw_color ==
                     IF c.is_eraser
                     THEN IF c.dark_mode THEN "#1e1e1e" ELSE "#ffffff"
                     ELSE c.brush_color
             IN  [t EXCEPT !.image.ops = Append(@, DrawOp("line", c.last, p, color_rgb(t), c.brush_size)),
                           !.canvas.items = Append(@,
                               CanvasItem("line", c.last, p, canvas_draw_color, c.brush_size, "")),
                           !.canvas.last = p]
        ELSE LET kept == DeleteTag(c.items, "preview")
             IN  IF c.mode \in {"line", "rect", "oval"}
                 THEN [t EXCEPT !.canvas.items = Append(kept,
                          CanvasItem(c.mode, c.start, p, c.brush_color, c.brush_size, "preview"))]
                 ELSE [t EXCEPT !.canvas.items = kept]

\* a release that commits the shape whether or not a stroke is in progress
Mut_on_mouse_release_unguarded(t, p) ==
    LET c == t.canvas
        t1 == [t EXCEPT !.canvas.drawing = FALSE]
        t2 == IF c.mode = "pen" THEN t1
              ELSE [t1 EXCEPT !.image.ops = Append(@,
                                  DrawOp(IF c.mode = "line" THEN "line"
                                         ELSE IF c.mode = "rect" THEN "rectangle" ELSE "ellipse",
                                         c.start, p, color_rgb(t), c.brush_size)),
                              !.canvas.items = Append(@,
                                  CanvasItem(c.mode, c.start, p, c.brush_color, c.brush_size, ""))]
    IN  [t2 EXCEPT !.canvas.items = DeleteTag(t2.canvas.items, "preview")]

on_mouse_release(t, p) ==
    LET c == t.canvas
        t1 == [t EXCEPT !.canvas.drawing = FALSE]
        t2 == IF c.mode = "line"
              THEN [t1 EXCEPT !.image.ops = Append(@, DrawOp("line", c.start, p, color_rgb(t), c.brush_size)),
                              !.canvas.items = Append(@,
                                  CanvasItem("line", c.start, p, c.brush_color, c.brush_size, ""))]
              ELSE IF c.mode = "rect"
              THEN [t1 EXCEPT !.image.ops = Append(@, DrawOp("rectangle", c.start, p, color_rgb(t), c.brush_size)),
                              !.canvas.items = Append(@,
                                  CanvasItem("rect", c.start, p, c.brush_color, c.brush_size, ""))]
              ELSE IF c.mode = "oval"
              THEN [t1 EXCEPT !.image.ops = Append(@, DrawOp("ellipse", c.start, p, color_rgb(t), c.brush_size)),
                              !.canvas.items = Append(@,
                                  CanvasItem("oval", c.start, p, c.brush_color, c.brush_size, ""))]
              ELSE t1
    IN  IF ~c.drawing THEN t
        ELSE [t2 EXCEPT !.canvas.items = DeleteTag(t2.canvas.items, "preview")]

\* a save that writes what the screen shows: the image and the preview
Mut_save_image_with_preview(t) ==
    LET shown == SelectSeq(t.canvas.items, LAMBDA item : item.tags = "preview")
    IN  IF shown = <<>> THEN t.image
        ELSE [t.image EXCEPT !.ops = Append(@,
                 DrawOp(shown[1].shape, shown[1].from, shown[1].to, color_rgb(t), t.canvas.brush_size))]

\* save_image: the content of the file it writes
save_image(t) == t.image

----------------------------------------------------------------------------
(* The registry as a value: the fields of NotepadApp the operations below  *)
(* read and write.                                                         *)

Reg == [ tabs |-> tabs,
         cur |-> current_tab_index,
         nb |-> nb_current,
         used_text |-> used_text_tab_numbers,
         used_drawing |-> used_drawing_tab_numbers,
         dark |-> dark_mode,
         timers |-> timers ]

SetReg(r) ==
    /\ tabs' = r.tabs
    /\ current_tab_index' = r.cur
    /\ nb_current' = r.nb
    /\ used_text_tab_numbers' = r.used_text
    /\ used_drawing_tab_numbers' = r.used_drawing
    /\ dark_mode' = r.dark
    /\ timers' = r.timers

\* NotepadApp.__init__ before new_text_tab()
EmptyReg == [ tabs |-> <<>>, cur |-> 0, nb |-> -1,
              used_text |-> {}, used_drawing |-> {}, dark |-> FALSE,
              timers |-> <<>> ]

RECURSIVE NextFree(_, _)
\* the while loop of get_next_*_tab_number
NextFree(used, num) ==
    IF num \in used THEN NextFree(used, num + 1) ELSE num

\* a numbering that counts the used numbers instead of looking for a free one
Mut_get_next_count(r) == Cardinality(r.used_text) + 1

get_next_text_tab_number(r) ==
    IF r.used_text = {} THEN 1 ELSE NextFree(r.used_text, 1)

get_next_drawing_tab_number(r) ==
    IF r.used_drawing = {} THEN 1 ELSE NextFree(r.used_drawing, 1)

\* on_tab_change: current_tab_index follows the notebook; a notebook
\* without tabs raises TclError, which is ignored
on_tab_change(r) ==
    IF r.nb >= 0 THEN [r EXCEPT !.cur = r.nb] ELSE r

\* tabs.append(tab); notebook.add(frame); notebook.select(len - 1);
\* current_tab_index = len - 1
AppendSelected(r, tab) ==
    LET ts == Append(r.tabs, tab)
    IN  [r EXCEPT !.tabs = ts, !.nb = Len(ts) - 1, !.cur = Len(ts) - 1]

new_text_tab(r) ==
    LET tab_number == get_next_text_tab_number(r)
        tab == [Tab("Untitled " \o ToString(tab_number), FALSE)
                    EXCEPT !.tab_number = tab_number]
    IN  AppendSelected([r EXCEPT !.used_text = r.used_text \cup {tab_number}], tab)

new_drawing_tab(r) ==
    LET tab_number == get_next_drawing_tab_number(r)
        tab == DrawingCanvas([Tab("Drawing " \o ToString(tab_number), TRUE)
                                  EXCEPT !.tab_number = tab_number], r.dark)
    IN  AppendSelected([r EXCEPT !.used_drawing = r.used_drawing \cup {tab_number}], tab)

\* an open that numbers the tab and does not enter the number in the set
Mut_open_file_unregistered(r, f) ==
    LET tab_number == get_next_text_tab_number(r)
        tab == [Tab(f.base, FALSE)
                    EXCEPT !.file_path = f.path,
                           !.tab_number = tab_number,
                           !.text = f.content]
    IN  AppendSelected(r, tab)

open_file(r, f) ==
    LET tab_number == get_next_text_tab_number(r)
        tab == [Tab(f.base, FALSE)
                    EXCEPT !.file_path = f.path,
                           !.tab_number = tab_number,
                           !.text = f.content]
    IN  AppendSelected([r EXCEPT !.used_text = r.used_text \cup {tab_number}], tab)

\* a release that forgets to release
Mut_release_none(r, tab) == r

\* a release that takes the number out of both sets
Mut_release_both(r, tab) ==
    [r EXCEPT !.used_drawing = r.used_drawing \ {tab.tab_number},
              !.used_text = r.used_text \ {tab.tab_number}]

\* close_tab: "Remove the tab number from the used sets"
release_number(r, tab) ==
    IF tab.is_drawing
    THEN [r EXCEPT !.used_drawing = r.used_drawing \ {tab.tab_number}]
    ELSE [r EXCEPT !.used_text = r.used_text \ {tab.tab_number}]

\* rename_tab, new_name the answer of the dialog ("" when it is cancelled).
\* self.tabs[index] raises IndexError for an index below -len, before
\* anything is changed; for a negative index from -len on it is the tab
\* counted from the end, whose name is set before notebook.tab(index, ...)
\* raises TclError.
rename_tab(r, index, new_name) ==
    IF index < Len(r.tabs)
    THEN IF index < -Len(r.tabs) \/ new_name = "" THEN r
         ELSE [r EXCEPT !.tabs[PyPosition(r.tabs, index)].name = new_name]
    ELSE r

\* a close that leaves current_tab_index as it was
Mut_close_tab_stale_index(r, index) ==
    IF 0 <= index /\ index < Len(r.tabs)
    THEN LET r1 == release_number(r, r.tabs[index + 1])
             r2 == [r1 EXCEPT !.nb = NbForget(r.nb, Len(r.tabs), index),
                              !.tabs = Pop(r.tabs, index)]
         IN  IF r2.tabs = <<>> THEN new_text_tab(r2) ELSE r2
    ELSE r

\* close_tab.  self.tabs[index] raises IndexError for an index below -len,
\* before anything is changed; for a negative index from -len on it is the
\* tab counted from the end, whose number is discarded before
\* notebook.forget(index) raises TclError and ends the handler.
close_tab(r, index) ==
    IF index < Len(r.tabs)
    THEN IF index < -Len(r.tabs) THEN r
         ELSE IF index < 0 THEN release_number(r, r.tabs[PyPosition(r.tabs, index)])
         ELSE
         LET tab == r.tabs[index + 1]
             r1 == release_number(r, tab)
             r2 == [r1 EXCEPT !.nb = NbForget(r.nb, Len(r.tabs), index),
                              !.tabs = Pop(r.tabs, index)]
         IN  IF r2.tabs = <<>>
             THEN new_text_tab(r2)
             ELSE on_tab_change([r2 EXCEPT !.cur = IF index - 1 > 0 THEN index - 1 ELSE 0])
    ELSE r

\* on_tab_press: position is -1 when the click is not on a tab (TclError).
\* The notebook's own binding for the same click selects the pressed tab.
on_tab_press(r, position) ==
    IF position >= 0 THEN on_tab_change([r EXCEPT !.nb = position]) ELSE r

\* on_tab_motion, when the pointer is over the tab at new_index
on_tab_motion(r, start, new_index) ==
    IF new_index # start
    THEN [r EXCEPT !.nb = NbMove(r.nb, start, new_index),
                   !.tabs = ListInsert(Pop(r.tabs, start), new_index, r.tabs[start + 1])]
    ELSE r

\* positions of the drawing tabs, in tab order (drawing_tabs)
DrawingPositions(ts) == { i \in 0..(Len(ts) - 1) : ts[i + 1].is_drawing }

\* export_image_with_current_text.export_with_selected_drawing, with the
\* drawing tab at position selected chosen in the list box
export_with_selected_drawing(r, selected) ==
    LET current_tab == r.tabs[r.cur + 1]
        selected_drawing_tab == r.tabs[selected + 1]
    IN  [r EXCEPT !.tabs[r.cur + 1].linked_drawing_tab_name = selected_drawing_tab.name,
                  !.tabs[selected + 1].linked_text_tab_name = current_tab.name,
                  !.tabs[selected + 1].drawing_text = current_tab.text]

\* a dark mode switch that reaches the drawing on screen only
Mut_toggle_dark_mode_current_only(r) ==
    LET dark == ~r.dark
    IN  [r EXCEPT !.dark = dark,
                  !.tabs = [k \in 1..Len(r.tabs) |->
                               IF r.tabs[k].is_drawing /\ k = r.cur + 1
                               THEN set_dark_mode(r.tabs[k], dark)
                               ELSE r.tabs[k]]]

\* toggle_dark_mode; the colours of the text widgets and of the toolbar are
\* left out
toggle_dark_mode(r) ==
    LET dark == ~r.dark
    IN  [r EXCEPT !.dark = dark,
                  !.tabs = [k \in 1..Len(r.tabs) |->
                               IF r.tabs[k].is_drawing
                               THEN set_dark_mode(r.tabs[k], dark)
                               ELSE r.tabs[k]]]

\* pick_theme.apply_theme; tab.theme, which nothing reads, and the colours
\* of a text widget are left out
apply_theme(r, theme) ==
    IF r.cur < Len(r.tabs) /\ r.tabs[r.cur + 1].is_drawing
    THEN [r EXCEPT !.tabs[r.cur + 1] = set_theme(@, theme)]
    ELSE r

\* save_file on a drawing tab: file_path is the answer of the save dialog
\* when one is shown, "" when it is cancelled.  The result is the registry
\* and the files on disk.
save_file(r, files, file_path) ==
    LET tab == r.tabs[r.cur + 1]
    IN  IF tab.auto_save_path # ""
        THEN [ r |-> r, files |-> (tab.auto_save_path :> save_image(tab)) @@ files ]
        ELSE IF file_path = ""
        THEN [ r |-> r, files |-> files ]
        ELSE [ r |-> [r EXCEPT !.tabs[r.cur + 1].auto_save_path = file_path],
               files |-> (file_path :> save_image(tab)) @@ files ]

\* the delay of the autosave timer, in ms
AutosaveDelay == 30000

\* self.root.after(ms, self.autosave)
root_after(r, ms) == [r EXCEPT !.timers = Append(@, ms)]

\* a version of the loop that returns after the first tab
Mut_AutosaveTabs_first_only(ts, i, files, fails) ==
    IF i >= Len(ts) \/ i > 0 THEN files
    ELSE LET tab == ts[i + 1]
             path == IF tab.is_drawing THEN tab.auto_save_path ELSE tab.file_path
             content == IF tab.is_drawing THEN save_image(tab) ELSE GetToEnd(tab.text)
         IN  IF path # "" /\ i \notin fails THEN (path :> content) @@ files ELSE files

RECURSIVE AutosaveTabs(_, _, _, _)
\* the loop of autosave from position i on: the files it leaves.  The write
\* of a position in fails raises when the file is opened, and the file is
\* as it was.
AutosaveTabs(ts, i, files, fails) ==
    IF i >= Len(ts) THEN files
    ELSE LET tab == ts[i + 1]
             path == IF tab.is_drawing THEN tab.auto_save_path ELSE tab.file_path
             content == IF tab.is_drawing THEN save_image(tab) ELSE GetToEnd(tab.text)
             written == IF path # "" /\ i \notin fails
                        THEN (path :> content) @@ files
                        ELSE files
         IN  AutosaveTabs(ts, i + 1, written, fails)

\* a version that lets the exception of a failed write end the handler
Mut_autosave_raises(r, files, fails) ==
    LET failing == { i \in fails : i < Len(r.tabs) /\
                       (IF r.tabs[i + 1].is_drawing THEN r.tabs[i + 1].auto_save_path
                        ELSE r.tabs[i + 1].file_path) # "" }
    IN  IF failing = {}
        THEN [ r |-> root_after(r, AutosaveDelay),
               files |-> AutosaveTabs(r.tabs, 0, files, fails) ]
        ELSE [ r |-> r, files |-> files ]

\* autosave: the files it leaves and the timer it sets as its last statement
autosave(r, files, fails) ==
    [ r |-> root_after(r, AutosaveDelay),
      files |-> AutosaveTabs(r.tabs, 0, files, fails) ]

----------------------------------------------------------------------------
(* Character formatting of a text tab.  An index "1.c" of the Text widget  *)
(* is the offset c; the text is one line.  A format tag is the set of      *)
(* offsets it is on, the selection its name is made of and its font; the   *)
(* millisecond in its name makes the name of every tag_add a new one.      *)
(* A font is its weight, slant and underline; family and size, which the   *)
(* toggles copy, are left out.                                             *)

\* Font(font=text_widget.cget("font")): the font of a widget nobody styled
base_font == [ weight |-> "normal", slant |-> "roman", underline |-> 0 ]

\* the format tags among text_widget.tag_names(index), as positions in
\* t.tags: Tk lists the tags on a character from the lowest priority, the
\* tag made first, to the highest
FormatTagsAt(t, index) == { k \in 1..Len(t.tags) : index \in t.tags[k].chars }

\* the smallest element of a non-empty set of numbers
Lowest(S) == CHOOSE k \in S : \A j \in S : k <= j

\* get_selection_font, the selection starting at sel_start
get_selection_font(t, sel_start) ==
    LET current_tags == FormatTagsAt(t, sel_start)
    IN  IF current_tags = {} THEN base_font
        ELSE t.tags[Lowest(current_tags)].font

\* a format that takes every format tag off the selection, wherever the
\* tag begins
Mut_apply_format_clears_selection(t, font, sel_start, sel_end) ==
    [t EXCEPT
        !.tags = Append(
            [k \in 1..Len(t.tags) |->
                [t.tags[k] EXCEPT !.chars = @ \ (sel_start..(sel_end - 1))]],
            [ sel_start |-> sel_start, sel_end |-> sel_end,
              chars |-> sel_start..(sel_end - 1), font |-> font ])]

\* a format that takes every tag on sel_start off the selection, the
\* highlight tags too
Mut_apply_format_removes_any_tag(t, font, sel_start, sel_end) ==
    [t EXCEPT
        !.tags = Append(
            [k \in 1..Len(t.tags) |->
                IF sel_start \in t.tags[k].chars
                THEN [t.tags[k] EXCEPT !.chars = @ \ (sel_start..(sel_end - 1))]
                ELSE t.tags[k]],
            [ sel_start |-> sel_start, sel_end |-> sel_end,
              chars |-> sel_start..(sel_end - 1), font |-> font ]),
        !.highlights =
            [k \in 1..Len(t.highlights) |->
                IF sel_start \in t.highlights[k].chars
                THEN [t.highlights[k] EXCEPT !.chars = @ \ (sel_start..(sel_end - 1))]
                ELSE t.highlights[k]]]

\* apply_format_to_selection on the selection [sel_start, sel_end)
apply_format_to_selection(t, font, sel_start, sel_end) ==
    LET current_tags == FormatTagsAt(t, sel_start)
        removed == [k \in 1..Len(t.tags) |->
                       IF k \in current_tags
                       THEN [t.tags[k] EXCEPT !.chars = @ \ (sel_start..(sel_end - 1))]
                       ELSE t.tags[k]]
    IN  [t EXCEPT !.tags = Append(removed,
            [ sel_start |-> sel_start,
              sel_end |-> sel_end,
              chars |-> sel_start..(sel_end - 1),
              font |-> font ])]

toggle_bold(r, sel_start, sel_end) ==
    LET tab == r.tabs[r.cur + 1]
        current_font == get_selection_font(tab, sel_start)
        new_weight == IF current_font.weight = "bold" THEN "normal" ELSE "bold"
        new_font == [current_font EXCEPT !.weight = new_weight]
    IN  IF r.tabs = <<>> \/ tab.is_drawing THEN r
        ELSE [r EXCEPT !.tabs[r.cur + 1] =
                 apply_format_to_selection(tab, new_font, sel_start, sel_end)]

toggle_italic(r, sel_start, sel_end) ==
    LET tab == r.tabs[r.cur + 1]
        current_font == get_selection_font(tab, sel_start)
        new_slant == IF current_font.slant = "italic" THEN "roman" ELSE "italic"
        new_font == [current_font EXCEPT !.slant = new_slant]
    IN  IF r.tabs = <<>> \/ tab.is_drawing THEN r
        ELSE [r EXCEPT !.tabs[r.cur + 1] =
                 apply_format_to_selection(tab, new_font, sel_start, sel_end)]

toggle_underline(r, sel_start, sel_end) ==
    LET tab == r.tabs[r.cur + 1]
        current_font == get_selection_font(tab, sel_start)
        new_underline == IF current_font.underline # 0 THEN 0 ELSE 1
        new_font == [current_font EXCEPT !.underline = new_underline]
    IN  IF r.tabs = <<>> \/ tab.is_drawing THEN r
        ELSE [r EXCEPT !.tabs[r.cur + 1] =
                 apply_format_to_selection(tab, new_font, sel_start, sel_end)]

----------------------------------------------------------------------------
(* Highlighting of a text tab: a highlight tag is the set of offsets it is *)
(* on and its background colour.                                           *)

\* text_widget.tag_ranges(tag): the maximal runs [start, end) of a tag
tag_ranges(chars) ==
    { rg \in chars \X { c + 1 : c \in chars } :
        /\ rg[1] < rg[2]
        /\ \A c \in rg[1]..(rg[2] - 1) : c \in chars
        /\ (rg[1] - 1) \notin chars
        /\ rg[2] \notin chars }

\* the highlight tags among text_widget.tag_names(index), as positions in
\* t.highlights
HighlightTagsAt(t, index) ==
    { k \in 1..Len(t.highlights) : index \in t.highlights[k].chars }

apply_highlight(r, color, sel_start, sel_end) ==
    LET tab == r.tabs[r.cur + 1]
    IN  IF r.tabs = <<>> \/ tab.is_drawing THEN r
        ELSE [r EXCEPT !.tabs[r.cur + 1].highlights =
                 Append(@, [ chars |-> sel_start..(sel_end - 1),
                             background |-> color ])]

remove_highlight(r, sel_start, sel_end) ==
    LET tab == r.tabs[r.cur + 1]
        \* some range of the tag overlaps the selection, as the code compares
        overlaps(tag) == \E rg \in tag_ranges(tag.chars) :
                            sel_start <= rg[2] /\ sel_end >= rg[1]
    IN  IF r.tabs = <<>> \/ tab.is_drawing THEN r
        ELSE [r EXCEPT !.tabs[r.cur + 1].highlights =
                 [k \in 1..Len(tab.highlights) |->
                     IF k \in HighlightTagsAt(tab, sel_start) /\ overlaps(tab.highlights[k])
                     THEN [tab.highlights[k] EXCEPT
                              !.chars = @ \ (sel_start..(sel_end - 1))]
                     ELSE tab.highlights[k]]]

----------------------------------------------------------------------------
(* Editing the text of a text tab.  The clipboard belongs to the window    *)
(* system and is not part of the state.                                    *)

\* a key typed with the insertion cursor at index: the class binding of the
\* Text widget inserts it there
type_key(t, index, key) == text_insert(t, index, key)

cut(r, sel_first, sel_last) ==
    LET tab == r.tabs[r.cur + 1]
    IN  IF r.tabs = <<>> \/ tab.is_drawing THEN r
        ELSE [r EXCEPT !.tabs[r.cur + 1] = text_delete(tab, sel_first, sel_last)]

delete_selection(r, sel_first, sel_last) ==
    LET tab == r.tabs[r.cur + 1]
    IN  IF r.tabs = <<>> \/ r.cur >= Len(r.tabs) \/ tab.is_drawing THEN r
        ELSE [r EXCEPT !.tabs[r.cur + 1] = text_delete(tab, sel_first, sel_last)]

\* the punctuation and whitespace old_word ends with
RECURSIVE Trailing(_)

Trailing(old_word) ==
    IF old_word = "" THEN ""
    ELSE LET char == SubSeq(old_word, Len(old_word), Len(old_word))
         IN  IF char \in punctuation \/ isspace(char)
             THEN Trailing(SubSeq(old_word, 1, Len(old_word) - 1)) \o char
             ELSE ""

\* a version that inserts the new word where the old word ended
Mut_replace_word_at_end(t, start, end, new_word) ==
    LET old_word == SubSeq(t.text, start + 1, end)
        deleted == text_delete(t, start, end)
        at == IF end <= Len(deleted.text) THEN end ELSE Len(deleted.text)
    IN  text_insert(deleted, at, new_word \o Trailing(old_word))

replace_word(t, start, end, new_word) ==
    LET old_word == SubSeq(t.text, start + 1, end)
        trailing == Trailing(old_word)
    IN  text_insert(text_delete(t, start, end), start, new_word \o trailing)

----------------------------------------------------------------------------
(* Session persistence *)

NoSession == [ exists |-> FALSE, used_text |-> {}, used_drawing |-> {}, tabs |-> <<>> ]

\* f"session_text_{i}_{int(time.time())}.txt"
TextSidecarPath(i, t) == "session_text_" \o ToString(i) \o "_" \o ToString(t) \o ".txt"

\* f"session_drawing_{i}_{int(time.time())}.png"
DrawingSidecarPath(i, t) == "session_drawing_" \o ToString(i) \o "_" \o ToString(t) \o ".png"

\* one iteration of the loop of save_session, for the tab at position i:
\* acc is [files, entries]; the sidecar write of a position in fails raises
SaveTab(acc, tab, i, t, fails) ==
    IF i \in fails THEN acc
    ELSE IF tab.is_drawing
    THEN LET img_path == DrawingSidecarPath(i, t)
         IN  [ files |-> (img_path :> save_image(tab)) @@ acc.files,
               entries |-> Append(acc.entries,
                   [ tab_number |-> tab.tab_number,
                     type |-> "drawing",
                     path |-> img_path,
                     name |-> tab.name,
                     drawing_text |-> tab.drawing_text,
                     linked_text_tab_name |-> tab.linked_text_tab_name ]) ]
    ELSE LET text_path == TextSidecarPath(i, t)
         IN  [ files |-> (text_path :> GetToEnd(tab.text)) @@ acc.files,
               entries |-> Append(acc.entries,
                   [ tab_number |-> tab.tab_number,
                     type |-> "text",
                     path |-> text_path,
                     name |-> tab.name,
                     file_path |-> tab.file_path ]) ]

RECURSIVE Mut_SaveTabs_abort(_, _, _, _, _)
\* a snapshot that stops at the first sidecar write that fails
Mut_SaveTabs_abort(acc, ts, i, t, fails) ==
    IF i >= Len(ts) \/ i \in fails THEN acc
    ELSE Mut_SaveTabs_abort(SaveTab(acc, ts[i + 1], i, t, fails), ts, i + 1, t, fails)

RECURSIVE SaveTabs(_, _, _, _, _)
SaveTabs(acc, ts, i, t, fails) ==
    IF i >= Len(ts) THEN acc
    ELSE SaveTabs(SaveTab(acc, ts[i + 1], i, t, fails), ts, i + 1, t, fails)

\* a snapshot that takes the tabs it could not write out of the tab list
Mut_save_session_drops_failed(r, files, t, fails) ==
    LET acc == SaveTabs([files |-> files, entries |-> <<>>], r.tabs, 0, t, fails)
    IN  [ r |-> [r EXCEPT !.tabs = SelectSeq(
                     [k \in 1..Len(r.tabs) |->
                         IF (k - 1) \in fails THEN [r.tabs[k] EXCEPT !.name = ""] ELSE r.tabs[k]],
                     LAMBDA tab : tab.name # "")],
          files |-> acc.files,
          session |-> [ exists |-> TRUE,
                        used_text |-> r.used_text,
                        used_drawing |-> r.used_drawing,
                        tabs |-> acc.entries ] ]

\* save_session: the registry, the sidecar files and the session file it
\* leaves; the method assigns to no field of the application or of a tab
save_session(r, files, t, fails) ==
    LET acc == SaveTabs([files |-> files, entries |-> <<>>], r.tabs, 0, t, fails)
    IN  [ r |-> r,
          files |-> acc.files,
          session |-> [ exists |-> TRUE,
                        used_text |-> r.used_text,
                        used_drawing |-> r.used_drawing,
                        tabs |-> acc.entries ] ]

RECURSIVE SaveDrawingsOnExit(_, _, _)
\* the loop of on_close over the drawing tabs that have an auto_save_path
SaveDrawingsOnExit(ts, i, files) ==
    IF i >= Len(ts) THEN files
    ELSE LET tab == ts[i + 1]
         IN  SaveDrawingsOnExit(ts, i + 1,
                 IF tab.is_drawing /\ tab.auto_save_path # ""
                 THEN (tab.auto_save_path :> save_image(tab)) @@ files
                 ELSE files)

\* tabs.append(tab); notebook.add(frame): a notebook without a selected
\* tab selects the first one it is given
AppendRestored(r, tab) ==
    LET ts == Append(r.tabs, tab)
    IN  [r EXCEPT !.tabs = ts, !.nb = IF r.nb < 0 THEN Len(ts) - 1 ELSE r.nb]

\* one iteration of the restore loop of load_session
RestoreTab(r, tab_info, files) ==
    IF tab_info.type = "text"
    THEN IF tab_info.path \in DOMAIN files
         THEN AppendRestored(r,
                  [Tab(tab_info.name, FALSE)
                      EXCEPT !.file_path = tab_info.file_path,
                             !.tab_number = tab_info.tab_number,
                             !.text = files[tab_info.path]])
         ELSE r
    ELSE IF tab_info.path \in DOMAIN files
         THEN AppendRestored(r,
                  [DrawingCanvas([Tab(tab_info.name, TRUE)
                      EXCEPT !.drawing_text = tab_info.drawing_text,
                             !.linked_text_tab_name = tab_info.linked_text_tab_name,
                             !.tab_number = tab_info.tab_number], r.dark)
                      EXCEPT !.image = files[tab_info.path]])
         ELSE r

RECURSIVE RestoreTabs(_, _, _, _)
RestoreTabs(r, entries, k, files) ==
    IF k > Len(entries) THEN r
    ELSE RestoreTabs(RestoreTab(r, entries[k], files), entries, k + 1, files)

\* a restore that keeps the initial tab
Mut_KeepInitialTab(r) == r

\* the removal of the initial "Untitled" tab in load_session
RemoveInitialTab(r) ==
    IF Len(r.tabs) = 1 /\ StartsWith(r.tabs[1].name, "Untitled")
    THEN [r EXCEPT !.used_text = r.used_text \ {r.tabs[1].tab_number},
                   !.nb = NbForget(r.nb, 1, 0),
                   !.tabs = Pop(r.tabs, 0)]
    ELSE r

load_session(r, session, files) ==
    IF ~session.exists THEN r
    ELSE LET r1 == [r EXCEPT !.used_text = session.used_text,
                             !.used_drawing = session.used_drawing]
         IN  RestoreTabs(RemoveInitialTab(r1), session.tabs, 1, files)

\* NotepadApp.__init__: new_text_tab() then load_session(); the tab change
\* events queued meanwhile are delivered when the main loop starts
StartApp(session, files) ==
    root_after(on_tab_change(load_session(new_text_tab(EmptyReg), session, files)),
               AutosaveDelay)

----------------------------------------------------------------------------
(* Initial state: the first process, started without a session file       *)

NoOp == [ op |-> "init", number |-> 0, is_drawing |-> FALSE, point |-> <<0, 0>>,
          theme |-> "" ]

Init ==
    /\ phase = "running"
    /\ LET r == StartApp(NoSession, << >>)
       IN  /\ tabs = r.tabs
           /\ current_tab_index = r.cur
           /\ nb_current = r.nb
           /\ used_text_tab_numbers = r.used_text
           /\ used_drawing_tab_numbers = r.used_drawing
           /\ dark_mode = r.dark
           /\ timers = r.timers
    /\ drag_start_index = -1
    /\ dragging = FALSE
    /\ session_file = NoSession
    /\ sidecars = << >>
    /\ now = 0
    /\ runs = 1
    /\ saved = [ tabs |-> <<>>, complete |-> FALSE, fails |-> {} ]
    /\ last = NoOp

----------------------------------------------------------------------------
(* Operations of a running process *)

\* a process is alive and no mouse button is held
Idle == phase = "running" /\ ~dragging

CanCreate == Idle /\ Len(tabs) < MaxTabs

NewTextTab ==
    /\ CanCreate
    /\ get_next_text_tab_number(Reg) <= MaxNum
    /\ SetReg(new_text_tab(Reg))
    /\ last' = [NoOp EXCEPT !.op = "new_text_tab"]
    /\ UNCHANGED <<phase, drag_start_index, dragging, session_file, sidecars,
                   now, runs, saved>>

NewDrawingTab ==
    /\ CanCreate
    /\ get_next_drawing_tab_number(Reg) <= MaxNum
    /\ SetReg(new_drawing_tab(Reg))
    /\ last' = [NoOp EXCEPT !.op = "new_drawing_tab"]
    /\ UNCHANGED <<phase, drag_start_index, dragging, session_file, sidecars,
                   now, runs, saved>>

OpenFile ==
    /\ CanCreate
    /\ get_next_text_tab_number(Reg) <= MaxNum
    /\ \E f \in OpenableFiles : SetReg(open_file(Reg, f))
    /\ last' = [NoOp EXCEPT !.op = "open_file"]
    /\ UNCHANGED <<phase, drag_start_index, dragging, session_file, sidecars,
                   now, runs, saved>>

CloseTab ==
    /\ Idle
    /\ \E index \in 0..(Len(tabs) - 1) :
        /\ SetReg(close_tab(Reg, index))
        /\ last' = [NoOp EXCEPT !.op = "close_tab",
                                 !.number = tabs[index + 1].tab_number,
                                 !.is_drawing = tabs[index + 1].is_drawing]
    /\ UNCHANGED <<phase, drag_start_index, dragging, session_file, sidecars,
                   now, runs, saved>>

\* button 1 goes down on the notebook: on the tab at position, or beside
\* the tabs (position = -1)
TabPress ==
    /\ phase = "running" /\ ~dragging
    /\ \E position \in -1..(Len(tabs) - 1) :
        /\ SetReg(on_tab_press(Reg, position))
        /\ drag_start_index' = position
        /\ last' = [NoOp EXCEPT !.op = "on_tab_press"]
    /\ dragging' = TRUE
    /\ UNCHANGED <<phase, session_file, sidecars, now, runs, saved>>

\* the pointer moves with button 1 down and is over the tab at new_index
TabMotion ==
    /\ phase = "running" /\ dragging
    /\ drag_start_index # -1
    /\ \E new_index \in 0..(Len(tabs) - 1) :
        /\ new_index # drag_start_index
        /\ SetReg(on_tab_motion(Reg, drag_start_index, new_index))
        /\ drag_start_index' = new_index
        /\ last' = [NoOp EXCEPT !.op = "on_tab_motion"]
    /\ UNCHANGED <<phase, dragging, session_file, sidecars, now, runs, saved>>

\* button 1 goes up: no handler is bound to it
TabRelease ==
    /\ phase = "running" /\ dragging
    /\ dragging' = FALSE
    /\ last' = [NoOp EXCEPT !.op = "release"]
    /\ UNCHANGED <<phase, tabs, current_tab_index, nb_current, drag_start_index,
                   used_text_tab_numbers, used_drawing_tab_numbers, dark_mode, timers,
                   session_file, sidecars, now, runs, saved>>

\* Edit > Export Image with Text, a drawing chosen, "Export with Selected"
LinkTabs ==
    /\ Idle
    /\ tabs # <<>> /\ current_tab_index < Len(tabs)
    /\ ~tabs[current_tab_index + 1].is_drawing
    /\ \E selected \in DrawingPositions(tabs) :
        /\ SetReg(export_with_selected_drawing(Reg, selected))
        /\ last' = [NoOp EXCEPT !.op = "link"]
    /\ UNCHANGED <<phase, dragging, drag_start_index, session_file, sidecars,
                   now, runs, saved>>

\* a key is typed into the text widget the notebook shows
TypeKey ==
    /\ Idle
    /\ nb_current >= 0
    /\ ~tabs[nb_current + 1].is_drawing
    /\ Len(tabs[nb_current + 1].text) < MaxText
    /\ \E key \in Keys :
        tabs' = [tabs EXCEPT ![nb_current + 1].text = @ \o key]
    /\ last' = [NoOp EXCEPT !.op = "type"]
    /\ UNCHANGED <<phase, dragging, current_tab_index, nb_current, drag_start_index,
                   used_text_tab_numbers, used_drawing_tab_numbers, dark_mode, timers,
                   session_file, sidecars, now, runs, saved>>

\* a second passes between two runs
Tick ==
    /\ phase = "closed"
    /\ now < MaxTime
    /\ now' = now + 1
    /\ last' = [NoOp EXCEPT !.op = "tick"]
    /\ UNCHANGED <<phase, dragging, tabs, current_tab_index, nb_current,
                   drag_start_index, used_text_tab_numbers,
                   used_drawing_tab_numbers, dark_mode, timers, session_file, sidecars,
                   runs, saved>>

\* the registry of a process that has ended
Ended ==
    /\ SetReg(EmptyReg)
    /\ drag_start_index' = -1
    /\ dragging' = FALSE
    /\ phase' = "closed"

\* on_close: save_session(), the drawings saved to their paths and
\* root.destroy(); the sidecar writes of the positions in fails raise
OnClose ==
    /\ Idle
    /\ \E fails \in SUBSET (0..(Len(tabs) - 1)) :
        LET s == save_session(Reg, sidecars, now, fails)
        IN  /\ session_file' = s.session
            /\ sidecars' = SaveDrawingsOnExit(s.r.tabs, 0, s.files)
            /\ saved' = [ tabs |-> s.r.tabs, complete |-> fails = {}, fails |-> fails ]
    /\ Ended
    /\ last' = [NoOp EXCEPT !.op = "on_close"]
    /\ UNCHANGED <<now, runs>>

\* Control-q: root.quit() ends the main loop; nothing is saved
Quit ==
    /\ Idle
    /\ Ended
    /\ last' = [NoOp EXCEPT !.op = "quit"]
    /\ UNCHANGED <<session_file, sidecars, now, runs, saved>>

\* paths the session file names
SessionPaths == { session_file.tabs[k].path : k \in 1..Len(session_file.tabs) }

\* a sidecar file the session file names disappears from the temp directory
\* between two runs
DeleteSidecar ==
    /\ phase = "closed"
    /\ \E p \in DOMAIN sidecars \cap SessionPaths :
        sidecars' = [q \in DOMAIN sidecars \ {p} |-> sidecars[q]]
    /\ last' = [NoOp EXCEPT !.op = "delete_sidecar"]
    /\ UNCHANGED <<phase, dragging, tabs, current_tab_index, nb_current,
                   drag_start_index, used_text_tab_numbers,
                   used_drawing_tab_numbers, dark_mode, timers, session_file, now, runs,
                   saved>>

\* a new process: NotepadApp.__init__
Start ==
    /\ phase = "closed"
    /\ runs < MaxRuns
    /\ SetReg(StartApp(session_file, sidecars))
    /\ phase' = "running"
    /\ runs' = runs + 1
    /\ last' = [NoOp EXCEPT !.op = "start"]
    /\ UNCHANGED <<dragging, drag_start_index, session_file, sidecars, now, saved>>

\* the creations while fewer than MaxSessionTabs tabs are open
FewNewTextTab == Len(tabs) < MaxSessionTabs /\ NewTextTab
FewNewDrawingTab == Len(tabs) < MaxSessionTabs /\ NewDrawingTab
FewOpenFile == Len(tabs) < MaxSessionTabs /\ OpenFile

Next ==
    \/ FewNewTextTab
    \/ FewNewDrawingTab
    \/ FewOpenFile
    \/ CloseTab
    \/ LinkTabs
    \/ TypeKey
    \/ Tick
    \/ OnClose
    \/ Quit
    \/ DeleteSidecar
    \/ Start

Spec == Init /\ [][Next]_vars

\* the operations of one process on its registry
NextRegistry ==
    \/ NewTextTab
    \/ NewDrawingTab
    \/ OpenFile
    \/ CloseTab
    \/ TabPress
    \/ TabMotion
    \/ TabRelease

SpecRegistry == Init /\ [][NextRegistry]_vars

\* the operations of one process that make, select, link and close tabs
NextLinks ==
    \/ NewTextTab
    \/ NewDrawingTab
    \/ CloseTab
    \/ TabPress
    \/ TabRelease
    \/ LinkTabs

SpecLinks == Init /\ [][NextLinks]_vars

----------------------------------------------------------------------------
(* Operations on the drawing surface the notebook shows *)

\* the tab on screen is a drawing tab
OnCanvas == phase = "running" /\ nb_current >= 0 /\ tabs[nb_current + 1].is_drawing

\* the drawing tab on screen
Shown == tabs[nb_current + 1]

\* no canvas has button 1 held down on it
NoStroke == \A k \in 1..Len(tabs) : ~tabs[k].canvas.drawing

\* all but the tabs and the history of the last operation
UnchangedButTabs ==
    UNCHANGED <<phase, current_tab_index, nb_current, drag_start_index, dragging,
                used_text_tab_numbers, used_drawing_tab_numbers, dark_mode, timers,
                session_file, sidecars, now, runs, saved>>

\* button 1 goes down on the canvas at p
MousePress ==
    /\ OnCanvas /\ ~dragging /\ NoStroke
    /\ Shown.canvas.mode # "pen" => Len(Shown.image.ops) < MaxOps
    /\ \E p \in Points :
        /\ tabs' = [tabs EXCEPT ![nb_current + 1] = on_mouse_press(@, p)]
        /\ last' = [NoOp EXCEPT !.op = "on_mouse_press", !.point = p]
    /\ UnchangedButTabs

\* the pointer moves to p with button 1 down
MouseMove ==
    /\ OnCanvas /\ Shown.canvas.drawing
    /\ Shown.canvas.mode = "pen" => Len(Shown.image.ops) < MaxOps
    /\ \E p \in Points :
        /\ tabs' = [tabs EXCEPT ![nb_current + 1] = on_mouse_move(@, p)]
        /\ last' = [NoOp EXCEPT !.op = "on_mouse_move", !.point = p]
    /\ UnchangedButTabs

\* button 1 goes up at p
MouseRelease ==
    /\ OnCanvas /\ Shown.canvas.drawing
    /\ \E p \in Points :
        /\ tabs' = [tabs EXCEPT ![nb_current + 1] = on_mouse_release(@, p)]
        /\ last' = [NoOp EXCEPT !.op = "on_mouse_release", !.point = p]
    /\ UnchangedButTabs

\* the Eraser button
ToggleEraser ==
    /\ OnCanvas /\ ~dragging /\ NoStroke
    /\ tabs' = [tabs EXCEPT ![nb_current + 1] = toggle_eraser(@)]
    /\ last' = [NoOp EXCEPT !.op = "toggle_eraser"]
    /\ UnchangedButTabs

\* a Mode radio button
SelectMode ==
    /\ OnCanvas /\ ~dragging /\ NoStroke
    /\ \E mode \in Modes \ {Shown.canvas.mode} :
        tabs' = [tabs EXCEPT ![nb_current + 1] = select_mode(@, mode)]
    /\ last' = [NoOp EXCEPT !.op = "select_mode"]
    /\ UnchangedButTabs

\* the Clear All button
ClearCanvas ==
    /\ OnCanvas /\ ~dragging /\ NoStroke
    /\ tabs' = [tabs EXCEPT ![nb_current + 1] = clear_canvas(@)]
    /\ last' = [NoOp EXCEPT !.op = "clear_canvas"]
    /\ UnchangedButTabs

RECURSIVE DrawCalls(_, _)
\* history: the draw calls the images of the tabs from ts[k] on hold
DrawCalls(ts, k) ==
    IF k > Len(ts) THEN 0 ELSE Len(ts[k].image.ops) + DrawCalls(ts, k + 1)

\* the theme dialog, a theme chosen
PickTheme ==
    /\ Idle /\ NoStroke /\ tabs # <<>>
    /\ \E theme \in Themes :
        /\ SetReg(apply_theme(Reg, theme))
        /\ last' = [NoOp EXCEPT !.op = "set_theme", !.theme = theme]
    /\ UNCHANGED <<phase, drag_start_index, dragging, session_file, sidecars,
                   now, runs, saved>>

\* View > Dark Mode
ToggleDarkMode ==
    /\ Idle /\ NoStroke
    /\ SetReg(toggle_dark_mode(Reg))
    /\ last' = [NoOp EXCEPT !.op = "toggle_dark_mode", !.number = DrawCalls(tabs, 1)]
    /\ UNCHANGED <<phase, drag_start_index, dragging, session_file, sidecars,
                   now, runs, saved>>

\* Control-s on a drawing tab
SaveDrawing ==
    /\ Idle /\ tabs # <<>> /\ current_tab_index < Len(tabs)
    /\ tabs[current_tab_index + 1].is_drawing
    /\ \E file_path \in DrawingFiles :
        LET s == save_file(Reg, sidecars, file_path)
        IN  /\ SetReg(s.r)
            /\ sidecars' = s.files
    /\ last' = [NoOp EXCEPT !.op = "save_file"]
    /\ UNCHANGED <<phase, drag_start_index, dragging, session_file, now, runs, saved>>

\* a timer of autosave comes due, between any two events: Tk takes it off
\* its list and calls autosave; the writes of the positions in fails raise
Autosave ==
    /\ phase = "running"
    /\ timers # <<>>
    /\ \E fails \in SUBSET (0..(Len(tabs) - 1)) :
        LET s == autosave([Reg EXCEPT !.timers = Tail(@)], sidecars, fails)
        IN  /\ SetReg(s.r)
            /\ sidecars' = s.files
            /\ last' = [NoOp EXCEPT !.op = "autosave", !.number = Cardinality(fails)]
    /\ UNCHANGED <<phase, drag_start_index, dragging, session_file, now, runs, saved>>

\* the first drawing tab is made
OneDrawingTab ==
    /\ NoStroke
    /\ DrawingPositions(tabs) = {}
    /\ NewDrawingTab

\* a drawing tab is made while fewer than MaxDrawings are open
FewDrawingTabs ==
    /\ NoStroke
    /\ Cardinality(DrawingPositions(tabs)) < MaxDrawings
    /\ NewDrawingTab

\* the image on screen has room for a draw call below MaxFewOps
FewOps == OnCanvas /\ Len(Shown.image.ops) < MaxFewOps

FewMousePress == FewOps /\ MousePress
FewMouseMove == (FewOps \/ (OnCanvas /\ Shown.canvas.mode # "pen")) /\ MouseMove

\* strokes with every tool, with and without the eraser
NextDrawing ==
    \/ OneDrawingTab
    \/ MousePress
    \/ MouseMove
    \/ MouseRelease
    \/ SelectMode
    \/ ToggleEraser
    \/ ClearCanvas

SpecDrawing == Init /\ [][NextDrawing]_vars

\* strokes with every tool and the writes of the image to a file
NextExport ==
    \/ OneDrawingTab
    \/ MousePress
    \/ MouseMove
    \/ MouseRelease
    \/ SelectMode
    \/ SaveDrawing
    \/ Autosave

SpecExport == Init /\ [][NextExport]_vars

\* pen strokes on several drawing tabs, themes and dark mode
NextThemes ==
    \/ FewDrawingTabs
    \/ FewMousePress
    \/ FewMouseMove
    \/ MouseRelease
    \/ PickTheme
    \/ ToggleDarkMode

SpecThemes == Init /\ [][NextThemes]_vars

\* strokes with every tool and the eraser, under themes and dark mode
NextEraser ==
    \/ OneDrawingTab
    \/ FewMousePress
    \/ FewMouseMove
    \/ MouseRelease
    \/ SelectMode
    \/ ToggleEraser
    \/ PickTheme
    \/ ToggleDarkMode

SpecEraser == Init /\ [][NextEraser]_vars

\* strokes with every tool and the eraser on one drawing tab, and the
\* session that brings the tab back in the next run
NextRestore ==
    \/ OneDrawingTab
    \/ FewMousePress
    \/ FewMouseMove
    \/ MouseRelease
    \/ SelectMode
    \/ ToggleEraser
    \/ OnClose
    \/ Start

SpecRestore == Init /\ [][NextRestore]_vars

\* the pointer leaves the canvas with button 1 down: the canvas has no
\* binding for <Leave>, and the button press keeps the pointer grabbed for
\* the canvas, which goes on receiving <B1-Motion> and <ButtonRelease-1>
MouseLeave ==
    /\ OnCanvas /\ Shown.canvas.drawing
    /\ last' = [NoOp EXCEPT !.op = "leave"]
    /\ UNCHANGED tabs
    /\ UnchangedButTabs

\* a <B1-Motion> event reaches a canvas on which no stroke is in progress
MouseMoveIdle ==
    /\ OnCanvas /\ ~Shown.canvas.drawing
    /\ \E p \in Points :
        /\ tabs' = [tabs EXCEPT ![nb_current + 1] = on_mouse_move(@, p)]
        /\ last' = [NoOp EXCEPT !.op = "on_mouse_move", !.point = p]
    /\ UnchangedButTabs

\* a <ButtonRelease-1> event reaches a canvas on which no stroke is in
\* progress (the button went down elsewhere, on a dialog that is gone)
MouseReleaseIdle ==
    /\ OnCanvas /\ ~Shown.canvas.drawing
    /\ \E p \in Points :
        /\ tabs' = [tabs EXCEPT ![nb_current + 1] = on_mouse_release(@, p)]
        /\ last' = [NoOp EXCEPT !.op = "on_mouse_release", !.point = p]
    /\ UnchangedButTabs

\* one drawing tab and the pointer events of its canvas
NextStroke ==
    \/ OneDrawingTab
    \/ MousePress
    \/ MouseMove
    \/ MouseMoveIdle
    \/ MouseReleaseIdle
    \/ MouseLeave
    \/ MouseRelease
    \/ SelectMode

SpecStroke == Init /\ [][NextStroke]_vars

----------------------------------------------------------------------------
(* Operations on the text widget of the current tab *)

\* the selections [sel_start, sel_end) of the text of the current tab
Selections ==
    IF tabs = <<>> \/ current_tab_index >= Len(tabs) THEN {}
    ELSE LET n == Len(tabs[current_tab_index + 1].text)
         IN  { sel \in (0..n) \X (0..n) : sel[1] < sel[2] }

\* the current tab is a text tab that can take another format tag
CanFormat ==
    /\ Idle
    /\ tabs # <<>> /\ current_tab_index < Len(tabs)
    /\ current_tab_index = nb_current
    /\ ~tabs[current_tab_index + 1].is_drawing
    /\ Len(tabs[current_tab_index + 1].tags) < MaxFormats

\* File > Open, a document chosen
OpenDocument ==
    /\ CanCreate
    /\ get_next_text_tab_number(Reg) <= MaxNum
    /\ \A k \in 1..Len(tabs) : tabs[k].file_path = ""
    /\ \E f \in Documents : SetReg(open_file(Reg, f))
    /\ last' = [NoOp EXCEPT !.op = "open_file"]
    /\ UNCHANGED <<phase, drag_start_index, dragging, session_file, sidecars,
                   now, runs, saved>>

\* Control-b with a selection
ToggleBold ==
    /\ CanFormat
    /\ \E sel \in Selections :
        /\ SetReg(toggle_bold(Reg, sel[1], sel[2]))
        /\ last' = [NoOp EXCEPT !.op = "toggle_bold", !.point = sel]
    /\ UNCHANGED <<phase, drag_start_index, dragging, session_file, sidecars,
                   now, runs, saved>>

\* Control-i with a selection
ToggleItalic ==
    /\ CanFormat
    /\ \E sel \in Selections :
        /\ SetReg(toggle_italic(Reg, sel[1], sel[2]))
        /\ last' = [NoOp EXCEPT !.op = "toggle_italic", !.point = sel]
    /\ UNCHANGED <<phase, drag_start_index, dragging, session_file, sidecars,
                   now, runs, saved>>

\* Control-u with a selection
ToggleUnderline ==
    /\ CanFormat
    /\ \E sel \in Selections :
        /\ SetReg(toggle_underline(Reg, sel[1], sel[2]))
        /\ last' = [NoOp EXCEPT !.op = "toggle_underline", !.point = sel]
    /\ UNCHANGED <<phase, drag_start_index, dragging, session_file, sidecars,
                   now, runs, saved>>

\* a document is opened and its text is formatted
NextFormat ==
    \/ OpenDocument
    \/ ToggleBold
    \/ ToggleItalic
    \/ ToggleUnderline

SpecFormat == Init /\ [][NextFormat]_vars

\* the current tab is a text tab shown by the notebook
OnText ==
    /\ Idle
    /\ tabs # <<>> /\ current_tab_index < Len(tabs)
    /\ current_tab_index = nb_current
    /\ ~tabs[current_tab_index + 1].is_drawing

\* a colour of the highlight palette is chosen, with a selection
ApplyHighlight ==
    /\ OnText
    /\ Len(tabs[current_tab_index + 1].highlights) < MaxHighlights
    /\ \E sel \in Selections, color \in HighlightColors :
        /\ SetReg(apply_highlight(Reg, color, sel[1], sel[2]))
        /\ last' = [NoOp EXCEPT !.op = "apply_highlight", !.point = sel]
    /\ UNCHANGED <<phase, drag_start_index, dragging, session_file, sidecars,
                   now, runs, saved>>

\* "Transparent (Remove Highlight)" is chosen, with a selection
RemoveHighlight ==
    /\ OnText
    /\ \E sel \in Selections :
        /\ SetReg(remove_highlight(Reg, sel[1], sel[2]))
        /\ last' = [NoOp EXCEPT !.op = "remove_highlight", !.point = sel]
    /\ UNCHANGED <<phase, drag_start_index, dragging, session_file, sidecars,
                   now, runs, saved>>

\* a document is opened and its text is highlighted
NextHighlight ==
    \/ OpenDocument
    \/ ApplyHighlight
    \/ RemoveHighlight

SpecHighlight == Init /\ [][NextHighlight]_vars

\* the text widget of the current tab can take another tag, of either kind
FewStyleTags ==
    /\ OnText
    /\ Len(tabs[current_tab_index + 1].tags)
           + Len(tabs[current_tab_index + 1].highlights) < MaxStyleTags

StyleToggleBold == FewStyleTags /\ ToggleBold
StyleToggleItalic == FewStyleTags /\ ToggleItalic
StyleToggleUnderline == FewStyleTags /\ ToggleUnderline
StyleApplyHighlight == FewStyleTags /\ ApplyHighlight

\* a document is opened and its text is formatted and highlighted
NextStyle ==
    \/ OpenDocument
    \/ StyleToggleBold
    \/ StyleToggleItalic
    \/ StyleToggleUnderline
    \/ StyleApplyHighlight
    \/ RemoveHighlight

SpecStyle == Init /\ [][NextStyle]_vars

----------------------------------------------------------------------------
(* Edits of the text of the current tab *)

\* the formatting and the highlighting of a text that is edited: one tag
FewToggleBold ==
    /\ OnText
    /\ tabs[current_tab_index + 1].highlights = <<>>
    /\ Len(tabs[current_tab_index + 1].tags) < MaxEditTags
    /\ ToggleBold

FewApplyHighlight ==
    /\ OnText
    /\ tabs[current_tab_index + 1].tags = <<>>
    /\ Len(tabs[current_tab_index + 1].highlights) < MaxEditTags
    /\ ApplyHighlight

\* a key is typed with the insertion cursor at index
TypeAt ==
    /\ OnText
    /\ Len(tabs[current_tab_index + 1].text) < MaxDocLen
    /\ \E index \in 0..Len(tabs[current_tab_index + 1].text), key \in EditKeys :
        /\ tabs' = [tabs EXCEPT ![current_tab_index + 1] = type_key(@, index, key)]
        /\ last' = [NoOp EXCEPT !.op = "type_key", !.point = <<index, index>>,
                                 !.number = Len(key)]
    /\ UNCHANGED <<phase, dragging, current_tab_index, nb_current, drag_start_index,
                   used_text_tab_numbers, used_drawing_tab_numbers, dark_mode, timers,
                   session_file, sidecars, now, runs, saved>>

\* Edit > Cut with a selection
Cut ==
    /\ OnText
    /\ \E sel \in Selections :
        /\ SetReg(cut(Reg, sel[1], sel[2]))
        /\ last' = [NoOp EXCEPT !.op = "cut", !.point = sel]
    /\ UNCHANGED <<phase, drag_start_index, dragging, session_file, sidecars,
                   now, runs, saved>>

\* Edit > Delete with a selection
DeleteSelection ==
    /\ OnText
    /\ \E sel \in Selections :
        /\ SetReg(delete_selection(Reg, sel[1], sel[2]))
        /\ last' = [NoOp EXCEPT !.op = "delete_selection", !.point = sel]
    /\ UNCHANGED <<phase, drag_start_index, dragging, session_file, sidecars,
                   now, runs, saved>>

\* a suggestion of the spelling menu is chosen for the word [start, end)
ReplaceWord ==
    /\ OnText
    /\ \E sel \in Selections, new_word \in Suggestions :
        LET t == tabs[current_tab_index + 1]
            u == replace_word(t, sel[1], sel[2], new_word)
        IN  /\ Len(u.text) <= MaxDocLen
            /\ tabs' = [tabs EXCEPT ![current_tab_index + 1] = u]
            /\ last' = [NoOp EXCEPT !.op = "replace_word", !.point = sel,
                                     !.number = Len(u.text) - Len(t.text) + (sel[2] - sel[1])]
    /\ UNCHANGED <<phase, dragging, current_tab_index, nb_current, drag_start_index,
                   used_text_tab_numbers, used_drawing_tab_numbers, dark_mode, timers,
                   session_file, sidecars, now, runs, saved>>

\* the text of the first tab is typed, formatted and edited
NextEdit ==
    \/ FewToggleBold
    \/ FewApplyHighlight
    \/ TypeAt
    \/ Cut
    \/ DeleteSelection
    \/ ReplaceWord

SpecEdit == Init /\ [][NextEdit]_vars

----------------------------------------------------------------------------
(* rename_tab and close_tab called with any index *)

\* the integers that are not a position of the tab list, two beyond each end
InvalidIndexes ==
    ((-(Len(tabs) + 2))..(Len(tabs) + 1)) \ (0..(Len(tabs) - 1))

\* "Rename Tab" of the context menu of the tab at index
RenameTab ==
    /\ Idle
    /\ \E index \in 0..(Len(tabs) - 1), new_name \in NewNames :
        /\ SetReg(rename_tab(Reg, index, new_name))
        /\ last' = [NoOp EXCEPT !.op = "rename_tab", !.point = <<index, 0>>]
    /\ UNCHANGED <<phase, drag_start_index, dragging, session_file, sidecars,
                   now, runs, saved>>

\* rename_tab is called with an index that is not a position
RenameTabInvalid ==
    /\ Idle
    /\ \E index \in InvalidIndexes, new_name \in NewNames :
        /\ SetReg(rename_tab(Reg, index, new_name))
        /\ last' = [NoOp EXCEPT !.op = "rename_tab_invalid", !.point = <<index, 0>>]
    /\ UNCHANGED <<phase, drag_start_index, dragging, session_file, sidecars,
                   now, runs, saved>>

\* close_tab is called with an index that is not a position
CloseTabInvalid ==
    /\ Idle
    /\ \E index \in InvalidIndexes :
        /\ SetReg(close_tab(Reg, index))
        /\ last' = [NoOp EXCEPT !.op = "close_tab_invalid", !.point = <<index, 0>>]
    /\ UNCHANGED <<phase, drag_start_index, dragging, session_file, sidecars,
                   now, runs, saved>>

NextAnyIndex ==
    \/ NewTextTab
    \/ NewDrawingTab
    \/ CloseTab
    \/ RenameTab
    \/ CloseTabInvalid
    \/ RenameTabInvalid

SpecAnyIndex == Init /\ [][NextAnyIndex]_vars

----------------------------------------------------------------------------
(* The autosave timer among the operations of one process *)

\* tabs are made, saved, edited and closed while the timer fires, until the
\* process ends
NextAutosave ==
    \/ FewOpenFile
    \/ FewNewDrawingTab
    \/ SaveDrawing
    \/ CloseTab
    \/ TypeKey
    \/ DeleteSelection
    \/ Autosave
    \/ OnClose
    \/ Quit

SpecAutosave == Init /\ [][NextAutosave]_vars

----------------------------------------------------------------------------
(* Vocabulary of the properties *)

\* the numbers the open tabs of a kind carry
OpenNumbers(ts, is_drawing) ==
    { ts[k].tab_number : k \in { j \in 1..Len(ts) : ts[j].is_drawing = is_drawing } }

\* n is the smallest positive integer that is not in used
SmallestFree(used, n) ==
    n >= 1 /\ n \notin used /\ \A m \in 1..(n - 1) : m \in used

\* how often the tab t occurs in ts
Count(ts, t) == Cardinality({ k \in 1..Len(ts) : ts[k] = t })

\* ts2 holds the tabs of ts1, each unchanged, in some order
SameTabs(ts1, ts2) ==
    /\ Len(ts1) = Len(ts2)
    /\ \A k \in 1..Len(ts1) : Count(ts1, ts1[k]) = Count(ts2, ts1[k])

\* a process has just started from a session whose sidecar writes all
\* succeeded and whose sidecar files are all there to be read
RoundTrip ==
    /\ phase = "running"
    /\ last.op = "start"
    /\ session_file.exists
    /\ saved.complete
    /\ SessionPaths \subseteq DOMAIN sidecars

----------------------------------------------------------------------------
(* Properties *)

\* C1: in every state of a running process no two open tabs of the same
\* kind carry the same tab number.
C1_UniqueNumbers ==
    phase = "running" =>
        \A i, j \in 1..Len(tabs) :
            (i # j /\ tabs[i].is_drawing = tabs[j].is_drawing)
                => tabs[i].tab_number # tabs[j].tab_number

\* C2: after initialization and after every completed operation, a restore
\* included, the registry of a running process holds at least one tab.
C2_AtLeastOneTab ==
    phase = "running" => Len(tabs) >= 1

\* C3: a step that creates a tab of a kind gives the new tab the smallest
\* positive integer that is not in the kind's used-number set, adds it to
\* that set and leaves the other kind's set as it was.
C3_CreateTakesSmallestFree ==
    [][ /\ last'.op \in {"new_text_tab", "open_file"} =>
            /\ Len(tabs') = Len(tabs) + 1
            /\ ~tabs'[Len(tabs')].is_drawing
            /\ SmallestFree(used_text_tab_numbers, tabs'[Len(tabs')].tab_number)
            /\ used_text_tab_numbers' =
                   used_text_tab_numbers \cup {tabs'[Len(tabs')].tab_number}
            /\ used_drawing_tab_numbers' = used_drawing_tab_numbers
        /\ last'.op = "new_drawing_tab" =>
            /\ Len(tabs') = Len(tabs) + 1
            /\ tabs'[Len(tabs')].is_drawing
            /\ SmallestFree(used_drawing_tab_numbers, tabs'[Len(tabs')].tab_number)
            /\ used_drawing_tab_numbers' =
                   used_drawing_tab_numbers \cup {tabs'[Len(tabs')].tab_number}
            /\ used_text_tab_numbers' = used_text_tab_numbers
      ]_vars

\* C3 witness: a drawing tab was just created and took number 1 again while
\* Drawing 2 is open, and a text number is in use.
C3_Witness ==
    /\ last.op = "new_drawing_tab"
    /\ tabs[Len(tabs)].tab_number = 1
    /\ used_drawing_tab_numbers = {1, 2}
    /\ used_text_tab_numbers # {}

\* C4: when a tab numbered n was closed while open tabs of its kind carry
\* every smaller number, the next tab created of that kind gets number n:
\* the replacement tab when the closed tab was the only one, else the tab
\* the next creation of that kind makes.
C4_ClosedNumberIsReused ==
    [][ /\ ( /\ last'.op = "close_tab"
             /\ Len(tabs) = 1
             /\ ~tabs[1].is_drawing
             /\ tabs[1].tab_number = 1 )
            => tabs'[1].tab_number = 1
        /\ ( /\ last.op = "close_tab"
             /\ \/ ~last.is_drawing /\ last'.op \in {"new_text_tab", "open_file"}
                \/ last.is_drawing /\ last'.op = "new_drawing_tab"
             /\ last.number \notin OpenNumbers(tabs, last.is_drawing)
             /\ \A m \in 1..(last.number - 1) : m \in OpenNumbers(tabs, last.is_drawing) )
            => tabs'[Len(tabs')].tab_number = last.number
      ]_vars

\* C4 witness: text tab 2 of 1, 2, 3 was closed and the text tab created
\* next is numbered 2, not 4.
C4_Witness ==
    /\ last.op = "new_text_tab"
    /\ Len(tabs) = 3
    /\ \A k \in 1..3 : ~tabs[k].is_drawing
    /\ tabs[1].tab_number = 1
    /\ tabs[2].tab_number = 3
    /\ tabs[3].tab_number = 2

\* C5 as stated: closing a tab removes exactly its own number from its own
\* kind's used-number set, the remaining tabs keep their numbers and the
\* other kind's set is unchanged; a reorder changes no tab's number.
C5_CloseRemovesOnlyOwnNumber ==
    [][ /\ last'.op = "close_tab" =>
            /\ IF last'.is_drawing
               THEN /\ used_drawing_tab_numbers' = used_drawing_tab_numbers \ {last'.number}
                    /\ used_text_tab_numbers' = used_text_tab_numbers
               ELSE /\ used_text_tab_numbers' = used_text_tab_numbers \ {last'.number}
                    /\ used_drawing_tab_numbers' = used_drawing_tab_numbers
            /\ \E index \in 0..(Len(tabs) - 1) :
                /\ tabs[index + 1].tab_number = last'.number
                /\ tabs[index + 1].is_drawing = last'.is_drawing
                /\ Len(tabs') >= Len(tabs) - 1
                /\ SubSeq(tabs', 1, Len(tabs) - 1) = Pop(tabs, index)
        /\ last'.op = "on_tab_motion" =>
            /\ SameTabs(tabs, tabs')
            /\ used_text_tab_numbers' = used_text_tab_numbers
            /\ used_drawing_tab_numbers' = used_drawing_tab_numbers
      ]_vars

\* C5 as amended: closing a tab that is not the only open tab removes
\* exactly its own number from its own kind's used-number set, the remaining
\* tabs keep their numbers and the other kind's set is unchanged; closing the
\* only open tab releases its number and then gives the smallest free text
\* number to the replacement text tab; a reorder changes no tab's number.
C5_CloseReleasesOwnNumber ==
    [][ /\ last'.op = "close_tab" =>
            LET released_text ==
                    IF last'.is_drawing THEN used_text_tab_numbers
                    ELSE used_text_tab_numbers \ {last'.number}
                released_drawing ==
                    IF last'.is_drawing THEN used_drawing_tab_numbers \ {last'.number}
                    ELSE used_drawing_tab_numbers
            IN  IF Len(tabs) > 1
                THEN /\ used_text_tab_numbers' = released_text
                     /\ used_drawing_tab_numbers' = released_drawing
                     /\ \E index \in 0..(Len(tabs) - 1) :
                         /\ tabs[index + 1].tab_number = last'.number
                         /\ tabs[index + 1].is_drawing = last'.is_drawing
                         /\ tabs' = Pop(tabs, index)
                ELSE /\ tabs[1].tab_number = last'.number
                     /\ tabs[1].is_drawing = last'.is_drawing
                     /\ Len(tabs') = 1
                     /\ ~tabs'[1].is_drawing
                     /\ SmallestFree(released_text, tabs'[1].tab_number)
                     /\ used_text_tab_numbers' = released_text \cup {tabs'[1].tab_number}
                     /\ used_drawing_tab_numbers' = released_drawing
        /\ last'.op = "on_tab_motion" =>
            /\ SameTabs(tabs, tabs')
            /\ used_text_tab_numbers' = used_text_tab_numbers
            /\ used_drawing_tab_numbers' = used_drawing_tab_numbers
      ]_vars

\* C5 witness: text tab 1 was just closed; text tab 2 and drawing tab 1 are
\* still open under their numbers.
C5_Witness ==
    /\ last.op = "close_tab"
    /\ last.number = 1
    /\ ~last.is_drawing
    /\ Len(tabs) = 2
    /\ used_text_tab_numbers = {2}
    /\ used_drawing_tab_numbers = {1}
    /\ OpenNumbers(tabs, FALSE) = {2}
    /\ OpenNumbers(tabs, TRUE) = {1}

\* C6: when a drag moves a tab, the tab list is permuted and
\* current_tab_index designates after the move the tab it designated before.
C6_ActiveIndexFollowsMove ==
    [][ last'.op = "on_tab_motion" =>
            /\ SameTabs(tabs, tabs')
            /\ tabs'[current_tab_index' + 1] = tabs[current_tab_index + 1]
      ]_vars

\* C7: when text tab A, linked with drawing tab B, is linked to another
\* drawing tab C, A's link names C, C's back-reference names A and B's
\* back-reference to A is cleared.
C7_RelinkClearsStaleBackReference ==
    [][ last'.op = "link" =>
            \A b \in DrawingPositions(tabs) :
                LET a == current_tab_index
                IN  ( /\ tabs[a + 1].linked_drawing_tab_name = tabs[b + 1].name
                      /\ tabs[b + 1].linked_text_tab_name = tabs[a + 1].name
                      /\ tabs'[a + 1].linked_drawing_tab_name # tabs[b + 1].name )
                    => /\ tabs'[b + 1].linked_text_tab_name = ""
                       /\ \E c \in DrawingPositions(tabs') :
                           /\ tabs'[a + 1].linked_drawing_tab_name = tabs'[c + 1].name
                           /\ tabs'[c + 1].linked_text_tab_name = tabs'[a + 1].name
      ]_vars

\* C8: if every sidecar write and read succeeds, a process started after a
\* save_session has as many tabs as were saved, in the same order, each with
\* the kind, display name and tab number it had.
C8_RoundTripTabs ==
    RoundTrip =>
        /\ Len(tabs) = Len(saved.tabs)
        /\ \A k \in 1..Len(tabs) :
            /\ tabs[k].is_drawing = saved.tabs[k].is_drawing
            /\ tabs[k].name = saved.tabs[k].name
            /\ tabs[k].tab_number = saved.tabs[k].tab_number

\* C8 witness: a drawing tab followed by the tab of an opened file came
\* back from a session.
C8_Witness ==
    /\ RoundTrip
    /\ Len(tabs) = 2
    /\ tabs[1].is_drawing
    /\ ~tabs[2].is_drawing
    /\ tabs[2].name = "notes.txt"

\* C9: a process started after a save_session has, in every tab, the link
\* references the tab had when it was saved.
C9_RoundTripLinks ==
    RoundTrip =>
        /\ Len(tabs) = Len(saved.tabs)
        /\ \A k \in 1..Len(tabs) :
            /\ tabs[k].linked_text_tab_name = saved.tabs[k].linked_text_tab_name
            /\ tabs[k].linked_drawing_tab_name = saved.tabs[k].linked_drawing_tab_name

\* C10: if every sidecar write and read succeeds, the text of each text tab
\* of a process started after a save_session is the text the tab had when it
\* was saved.
C10_RoundTripText ==
    RoundTrip =>
        /\ Len(tabs) = Len(saved.tabs)
        /\ \A k \in 1..Len(tabs) :
            ~tabs[k].is_drawing => tabs[k].text = saved.tabs[k].text

\* a process has just started from a session file
Restored ==
    /\ phase = "running"
    /\ last.op = "start"
    /\ session_file.exists

\* C11: after load_session each kind's used-number set is exactly the set
\* the session file records.
C11_UsedSetsEqualManifest ==
    Restored =>
        /\ used_text_tab_numbers = session_file.used_text
        /\ used_drawing_tab_numbers = session_file.used_drawing

\* C12: after a restore the registry holds one tab per entry of the session
\* file, at the entry's position and with its kind, name and number, and the
\* tab of an entry whose sidecar file is missing holds an empty document.
C12_MissingSidecarYieldsEmptyTab ==
    Restored =>
        /\ Len(tabs) = Len(session_file.tabs)
        /\ \A k \in 1..Len(tabs) :
            /\ tabs[k].is_drawing = (session_file.tabs[k].type = "drawing")
            /\ tabs[k].name = session_file.tabs[k].name
            /\ tabs[k].tab_number = session_file.tabs[k].tab_number
            /\ session_file.tabs[k].path \notin DOMAIN sidecars =>
                   /\ tabs[k].text = ""
                   /\ tabs[k].image.ops = <<>>

RECURSIVE Written(_, _, _)
\* the tabs of ts from Python position i on whose position is not in fails
Written(ts, fails, i) ==
    IF i >= Len(ts) THEN <<>>
    ELSE (IF i \in fails THEN <<>> ELSE <<ts[i + 1]>>) \o Written(ts, fails, i + 1)

\* C13: after a save_session in which sidecar writes failed, the session
\* file exists and its entries are, in registry order, the tabs whose
\* sidecar write succeeded, each with its kind, name and number and with a
\* sidecar file that was written.
C13_FailedWriteKeepsOtherTabs ==
    (phase = "closed" /\ last.op = "on_close") =>
        LET written == Written(saved.tabs, saved.fails, 0)
        IN  /\ session_file.exists
            /\ Len(session_file.tabs) = Len(written)
            /\ \A k \in 1..Len(written) :
                /\ (session_file.tabs[k].type = "drawing") = written[k].is_drawing
                /\ session_file.tabs[k].name = written[k].name
                /\ session_file.tabs[k].tab_number = written[k].tab_number
                /\ session_file.tabs[k].path \in DOMAIN sidecars

\* C13 witness: the sidecar write of the first of two tabs failed and the
\* second tab, a drawing, is the one entry of the session file.
C13_Witness ==
    /\ phase = "closed"
    /\ last.op = "on_close"
    /\ Len(saved.tabs) = 2
    /\ saved.fails = {0}
    /\ Len(session_file.tabs) = 1
    /\ session_file.tabs[1].type = "drawing"

\* the ImageDraw call that commits the shape of a tool
ShapeOf(mode) ==
    CASE mode = "line" -> "line" [] mode = "rect" -> "rectangle" [] mode = "oval" -> "ellipse"
      [] OTHER -> "none"

\* the preview items of a canvas
Previews(t) == { k \in 1..Len(t.canvas.items) : t.canvas.items[k].tags = "preview" }

C15_PenDrawsSegmentPerMove ==
    [][ (OnCanvas /\ Shown.canvas.mode = "pen") =>
            LET t == tabs[nb_current + 1]
                t2 == tabs'[nb_current + 1]
            IN  /\ last'.op = "on_mouse_press" =>
                    /\ t2.canvas.last = last'.point
                    /\ t2.image = t.image
                /\ last'.op = "on_mouse_move" =>
                    /\ t2.image.fill = t.image.fill
                    /\ Len(t2.image.ops) = Len(t.image.ops) + 1
                    /\ SubSeq(t2.image.ops, 1, Len(t.image.ops)) = t.image.ops
                    /\ LET op == t2.image.ops[Len(t2.image.ops)]
                       IN  /\ op.shape = "line"
                           /\ op.from = t.canvas.last
                           /\ op.to = last'.point
                    /\ t2.canvas.last = last'.point
                /\ last'.op = "on_mouse_release" => t2.image = t.image
      ]_vars

\* C15 witness: a pen stroke pressed at (1,1) moved to (4,3) and back: the
\* image holds the two segments, the second from where the first ended.
C15_Witness ==
    /\ OnCanvas
    /\ last.op = "on_mouse_move"
    /\ Shown.canvas.mode = "pen"
    /\ Shown.canvas.start = <<1, 1>>
    /\ Len(Shown.image.ops) = 2
    /\ Shown.image.ops[1].from = <<1, 1>>
    /\ Shown.image.ops[1].to = <<4, 3>>
    /\ Shown.image.ops[2].from = <<4, 3>>
    /\ Shown.image.ops[2].to = <<1, 1>>
    /\ Shown.canvas.last = <<1, 1>>

\* C16: the file a save or an autosave in which no write fails writes for a
\* drawing tab holds the image the tab has at that moment, which the write
\* leaves as it is; written during a line, rect or oval drag it holds the draw
\* calls the image held at the press and nothing of the preview.
C16_SavedImageIsCanonical ==
    [][ (last'.op \in {"save_file", "autosave"} /\ last'.number = 0) =>
            \A k \in 1..Len(tabs) :
                ( /\ tabs[k].is_drawing
                  /\ tabs'[k].auto_save_path # ""
                  /\ last'.op = "save_file" => k = current_tab_index + 1 )
                => /\ tabs'[k].auto_save_path \in DOMAIN sidecars'
                   /\ sidecars'[tabs'[k].auto_save_path] = tabs[k].image
                   /\ tabs'[k].image = tabs[k].image
                   /\ (tabs[k].canvas.drawing /\ tabs[k].canvas.mode # "pen") =>
                          Len(sidecars'[tabs'[k].auto_save_path].ops) =
                              tabs[k].canvas.pressed_ops
      ]_vars

\* C16 witness: the autosave timer fired during a rect drag that shows its
\* preview; the file holds the one shape committed before the drag.
C16_Witness ==
    /\ OnCanvas
    /\ last.op = "autosave" /\ last.number = 0
    /\ Shown.canvas.drawing
    /\ Shown.canvas.mode = "rect"
    /\ Previews(Shown) # {}
    /\ Shown.auto_save_path \in DOMAIN sidecars
    /\ Len(sidecars[Shown.auto_save_path].ops) = 1
    /\ sidecars[Shown.auto_save_path] = Shown.image

\* the image of t is one colour, the background colour the canvas of t has,
\* and the canvas shows no item
Wiped(t) ==
    /\ t.image.ops = <<>>
    /\ t.image.fill = hex_to_rgb(t.canvas.bg)
    /\ t.canvas.items = <<>>

\* C17: after set_theme the image of the drawing tab is filled with the
\* theme's background colour and holds no draw call, and its canvas shows no
\* item; after the dark mode is toggled this is so for every open drawing tab,
\* with the background colour of the new mode.
C17_ThemeChangeWipesDrawing ==
    [][ /\ ( /\ last'.op = "set_theme"
             /\ current_tab_index < Len(tabs)
             /\ tabs[current_tab_index + 1].is_drawing )
            => /\ Wiped(tabs'[current_tab_index + 1])
               /\ tabs'[current_tab_index + 1].canvas.bg = theme_colors[last'.theme]
        /\ last'.op = "toggle_dark_mode" =>
            /\ dark_mode' = ~dark_mode
            /\ Len(tabs') = Len(tabs)
            /\ \A k \in 1..Len(tabs) :
                tabs[k].is_drawing =>
                    /\ Wiped(tabs'[k])
                    /\ tabs'[k].canvas.bg = IF dark_mode' THEN "#1e1e1e" ELSE "#ffffff"
      ]_vars

\* C17 witness: the dark mode was just switched on with two drawing tabs
\* open whose images held a pen segment each; both are wiped.
C17_Witness ==
    /\ last.op = "toggle_dark_mode"
    /\ last.number = 2
    /\ dark_mode
    /\ Cardinality(DrawingPositions(tabs)) = 2
    /\ \A i \in DrawingPositions(tabs) :
        /\ Wiped(tabs[i + 1])
        /\ tabs[i + 1].image.fill = <<30, 30, 30>>

\* C18: every draw call a move or a release makes while the eraser is on has
\* the colour the image was filled with.
C18_EraserPaintsBackground ==
    [][ ( /\ last'.op \in {"on_mouse_move", "on_mouse_release"}
          /\ OnCanvas
          /\ Shown.canvas.is_eraser )
        => LET t == tabs[nb_current + 1]
               t2 == tabs'[nb_current + 1]
           IN  \A j \in (Len(t.image.ops) + 1)..Len(t2.image.ops) :
                   t2.image.ops[j].fill = t.image.fill
      ]_vars

\* the font get_selection_font gives at every offset of a text tab is the
\* font of the tag range made last among those on the offset, and the font
\* of the widget where there is none
LaterRangeWins(t) ==
    \A offset \in 0..(Len(t.text) - 1) :
        LET covering == FormatTagsAt(t, offset)
        IN  get_selection_font(t, offset) =
                IF covering = {} THEN base_font
                ELSE t.tags[CHOOSE k \in covering : \A j \in covering : j <= k].font

\* C19: at every offset of every text tab the resolved font is that of the
\* format range created last among the ranges that cover the offset,
\* whichever starts first, and the default font when no range covers it.
C19_LaterRangeWins ==
    \A k \in 1..Len(tabs) : ~tabs[k].is_drawing => LaterRangeWins(tabs[k])

\* C20: when the range [c,d) applied last has the opposite weight of the
\* range [a,b) applied just before it, with a <= c < b, the font resolved at
\* every offset of [c,d) is the font of the later range and the font resolved
\* at every offset of [a,c) is the font of the earlier one.
C20_OverlapResolvesToLater ==
    \A k \in 1..Len(tabs) :
        LET t == tabs[k]
            n == Len(t.tags)
        IN  ( /\ ~t.is_drawing
              /\ n >= 2
              /\ t.tags[n - 1].sel_start <= t.tags[n].sel_start
              /\ t.tags[n].sel_start < t.tags[n - 1].sel_end
              /\ t.tags[n].font.weight # t.tags[n - 1].font.weight )
            => /\ \A offset \in t.tags[n].sel_start..(t.tags[n].sel_end - 1) :
                    get_selection_font(t, offset) = t.tags[n].font
               /\ \A offset \in t.tags[n - 1].sel_start..(t.tags[n].sel_start - 1) :
                    get_selection_font(t, offset) = t.tags[n - 1].font

\* the case of C20 with no other range in the document: [a,b) and [c,d) are
\* the only two ranges applied
C20_TwoRangesOnly ==
    \A k \in 1..Len(tabs) :
        LET t == tabs[k]
        IN  ( /\ ~t.is_drawing
              /\ Len(t.tags) = 2
              /\ t.tags[1].sel_start <= t.tags[2].sel_start
              /\ t.tags[2].sel_start < t.tags[1].sel_end
              /\ t.tags[2].font.weight # t.tags[1].font.weight )
            => /\ \A offset \in t.tags[2].sel_start..(t.tags[2].sel_end - 1) :
                    get_selection_font(t, offset) = t.tags[2].font
               /\ \A offset \in t.tags[1].sel_start..(t.tags[2].sel_start - 1) :
                    get_selection_font(t, offset) = t.tags[1].font

\* the highlights on an offset of a text tab: the tags on it, each with its
\* colour
HighlightsOn(t, offset) ==
    { <<k, t.highlights[k].background>> : k \in HighlightTagsAt(t, offset) }

\* C21: remove_highlight on the selection [s,e) leaves no highlight on any
\* offset of [s,e), whichever highlight ranges intersect it, and every
\* offset outside [s,e) keeps its highlights and their colours.
C21_RemoveHighlightClearsSelection ==
    [][ last'.op = "remove_highlight" =>
          LET t == tabs[current_tab_index + 1]
              u == tabs'[current_tab_index + 1]
              s == last'.point[1]
              e == last'.point[2]
          IN  \A offset \in 0..(Len(t.text) - 1) :
                  HighlightsOn(u, offset) =
                      IF offset \in s..(e - 1) THEN {} ELSE HighlightsOn(t, offset)
      ]_vars

\* a style range [start, end) after k characters are inserted at offset p:
\* a range starting at or after p is shifted, a range p lies inside is
\* extended
ShiftAfterInsert(rg, p, k) ==
    IF rg[1] >= p THEN <<rg[1] + k, rg[2] + k>>
    ELSE IF p < rg[2] THEN <<rg[1], rg[2] + k>>
    ELSE rg

\* a style range [start, end) after the characters [p, q) are deleted: what
\* lies inside [p, q) is cut off (a range wholly inside is left empty)
ShiftAfterDelete(rg, p, q) ==
    LET Moved(c) == IF c <= p THEN c ELSE IF c <= q THEN p ELSE c - (q - p)
    IN  <<Moved(rg[1]), Moved(rg[2])>>

\* the offsets of the ranges of a tag after the insertion and the deletion
RangesAfterInsert(tagged, p, k) ==
    UNION { LET rg2 == ShiftAfterInsert(rg, p, k) IN rg2[1]..(rg2[2] - 1)
            : rg \in tag_ranges(tagged) }

RangesAfterDelete(tagged, p, q) ==
    UNION { LET rg2 == ShiftAfterDelete(rg, p, q) IN rg2[1]..(rg2[2] - 1)
            : rg \in tag_ranges(tagged) }

\* the style tags of a text tab, of both kinds
StyleTags(t) == t.tags \o [k \in 1..Len(t.highlights) |->
                              [chars |-> t.highlights[k].chars]]

\* every tag of u holds the offsets Expected gives for the same tag of t
TagsTransformed(t, u, Expected(_)) ==
    /\ Len(u.tags) = Len(t.tags)
    /\ Len(u.highlights) = Len(t.highlights)
    /\ \A k \in 1..Len(StyleTags(t)) :
          StyleTags(u)[k].chars = Expected(StyleTags(t)[k].chars)

\* C22: typing, cut, delete selection and replace word transform every
\* style range as specified (an insertion of k characters at p shifts the
\* ranges starting at or after p and extends the ranges p lies inside; a
\* deletion of [p,q) truncates the ranges partly inside and drops the ranges
\* wholly inside; replace word is the deletion followed by the insertion), and
\* every range then lies within the document.
C22_EditsShiftStyleRanges ==
    [][ last'.op \in {"type_key", "cut", "delete_selection", "replace_word"} =>
          LET t == tabs[current_tab_index + 1]
              u == tabs'[current_tab_index + 1]
              p == last'.point[1]
              q == last'.point[2]
              k == last'.number
              Inserted(tagged) == RangesAfterInsert(tagged, p, k)
              Deleted(tagged) == RangesAfterDelete(tagged, p, q)
              Replaced(tagged) == RangesAfterInsert(RangesAfterDelete(tagged, p, q), p, k)
          IN  /\ last'.op = "type_key" => TagsTransformed(t, u, Inserted)
              /\ last'.op \in {"cut", "delete_selection"} => TagsTransformed(t, u, Deleted)
              /\ last'.op = "replace_word" => TagsTransformed(t, u, Replaced)
              /\ \A j \in 1..Len(StyleTags(u)) :
                    \A rg \in tag_ranges(StyleTags(u)[j].chars) :
                        0 <= rg[1] /\ rg[1] < rg[2] /\ rg[2] <= Len(u.text)
      ]_vars

\* a word was replaced in a text with a format range that begins after the
\* word and has been shifted from where it was applied
C22_Witness ==
    /\ last.op = "replace_word"
    /\ \E k \in 1..Len(tabs[current_tab_index + 1].tags) :
          LET tag == tabs[current_tab_index + 1].tags[k]
          IN  /\ tag.chars # {}
              /\ \A c \in tag.chars : c >= last.point[1] + last.number
              /\ tag.chars # tag.sel_start..(tag.sel_end - 1)

\* the path autosave writes a tab to ("" when it has none) and what it writes
BackingPath(tab) == IF tab.is_drawing THEN tab.auto_save_path ELSE tab.file_path

Content(tab) == IF tab.is_drawing THEN tab.image ELSE GetToEnd(tab.text)

\* C23: while a process runs exactly one autosave timer is pending, with the
\* delay of 30 seconds: every firing, also one in which writes fail, leaves
\* the next timer set and no other.
C23_OneAutosaveTimerPending ==
    phase = "running" => timers = <<AutosaveDelay>>

\* the timer has fired, the write of a tab with a backing path has failed and
\* the next timer is set
C23_Witness ==
    /\ last.op = "autosave"
    /\ last.number = Len(tabs)
    /\ \E k \in 1..Len(tabs) :
          BackingPath(tabs[k]) # "" /\ BackingPath(tabs[k]) \notin DOMAIN sidecars
    /\ timers = <<AutosaveDelay>>

\* C24: after a firing of the autosave timer in which no write fails, the
\* current content of every open tab is in a file of that tab, tabs never
\* saved to a backing file included.
C24_FiringPersistsEveryTab ==
    (last.op = "autosave" /\ last.number = 0) =>
        \A k \in 1..Len(tabs) :
            /\ BackingPath(tabs[k]) \in DOMAIN sidecars
            /\ sidecars[BackingPath(tabs[k])] = Content(tabs[k])

\* C25: a firing of the autosave timer in which no write fails writes the
\* backing path of every tab open when it fires, with the content the tab has
\* then, and leaves every other file as it was, the files of closed tabs
\* included; once the process has ended no timer is pending.
C25_FiringWorksOnOpenTabs ==
    /\ [][ (last'.op = "autosave" /\ last'.number = 0) =>
             /\ \A k \in 1..Len(tabs) :
                   BackingPath(tabs[k]) # "" =>
                       /\ BackingPath(tabs[k]) \in DOMAIN sidecars'
                       /\ \E j \in 1..Len(tabs) :
                             /\ BackingPath(tabs[j]) = BackingPath(tabs[k])
                             /\ sidecars'[BackingPath(tabs[k])] = Content(tabs[j])
             /\ \A path \in DOMAIN sidecars' :
                   (\A k \in 1..Len(tabs) : BackingPath(tabs[k]) # path) =>
                       path \in DOMAIN sidecars /\ sidecars'[path] = sidecars[path]
         ]_vars
    /\ [](phase = "closed" => timers = <<>>)

\* the timer has fired with a drawing open that has a path and was made after
\* the timer was first set, and with the file of a text tab that was closed
C25_Witness ==
    /\ last.op = "autosave" /\ last.number = 0
    /\ \E k \in 1..Len(tabs) :
          /\ tabs[k].is_drawing
          /\ BackingPath(tabs[k]) \in DOMAIN sidecars
    /\ \E path \in DOMAIN sidecars :
          \A k \in 1..Len(tabs) : BackingPath(tabs[k]) # path

\* C26: close_tab and rename_tab called with an index that is not a position
\* of the tab list, a negative one included, leave the tab list, both
\* used-number sets, the active index and the notebook as they were.
C26_InvalidIndexIsRejected ==
    [][ last'.op \in {"close_tab_invalid", "rename_tab_invalid"} =>
          UNCHANGED <<tabs, used_text_tab_numbers, used_drawing_tab_numbers,
                      current_tab_index, nb_current>>
      ]_vars

\* C27: a button release and the pointer leaving the canvas both end the
\* stroke (no stroke is in progress and no preview is shown afterwards), and
\* a motion event that follows the end of a stroke with no new press changes
\* neither the image nor the items of the canvas.
C27_EveryStrokeEnds ==
    [][ /\ last'.op \in {"on_mouse_release", "leave"} =>
              /\ ~tabs'[nb_current + 1].canvas.drawing
              /\ Previews(tabs'[nb_current + 1]) = {}
        /\ (last.op \in {"on_mouse_release", "leave"} /\ last'.op = "on_mouse_move") =>
              /\ tabs'[nb_current + 1].image = Shown.image
              /\ tabs'[nb_current + 1].canvas.items = Shown.canvas.items
      ]_vars

\* the sidecar names a session file lists, in the order of its entries
ManifestPaths(session) == [k \in 1..Len(session.tabs) |-> session.tabs[k].path]

\* C28: the snapshot on_close writes gives no two tabs the same sidecar
\* name, and none of its names is a name of the snapshot generation before
\* it, whatever the time between the two.
C28_SidecarNamesAreFresh ==
    [][ last'.op = "on_close" =>
          LET new == ManifestPaths(session_file')
              old == ManifestPaths(session_file)
          IN  /\ \A j, k \in 1..Len(new) : new[j] = new[k] => j = k
              /\ \A j \in 1..Len(new), k \in 1..Len(old) : new[j] # old[k]
      ]_vars

\* the ImageDraw method that rasterizes the shape of a canvas item
DrawMethod(shape) ==
    CASE shape = "line" -> "line" [] shape = "rect" -> "rectangle" [] shape = "oval" -> "ellipse"

\* the items of the canvas of t and the draw calls of its image are the
\* same strokes: as many, in the same order, each pair with the same shape,
\* end points, width and colour
LayerShowsBitmap(t) ==
    /\ Len(t.canvas.items) = Len(t.image.ops)
    /\ \A j \in 1..Len(t.image.ops) :
        LET item == t.canvas.items[j]
            op == t.image.ops[j]
        IN  /\ DrawMethod(item.shape) = op.shape
            /\ item.from = op.from /\ item.to = op.to
            /\ item.width = op.width
            /\ hex_to_rgb(item.color) = op.fill

\* C29: whenever no stroke is in progress on a drawing surface, what its
\* canvas shows and what its image holds are the same committed strokes with
\* the same geometry and colour, for every tool with and without the eraser
\* and for a surface restored from a session.
C29_LayerShowsBitmap ==
    \A k \in 1..Len(tabs) :
        (tabs[k].is_drawing /\ ~tabs[k].canvas.drawing) => LayerShowsBitmap(tabs[k])

\* C30: in a process started without a session file, after any sequence of
\* new tabs, opened files, closes and reorders, the used-number set of each
\* kind is exactly the set of the tab numbers of the open tabs of that kind.
C30_UsedSetsAreOpenNumbers ==
    (phase = "running" /\ ~session_file.exists) =>
        /\ used_text_tab_numbers = OpenNumbers(tabs, FALSE)
        /\ used_drawing_tab_numbers = OpenNumbers(tabs, TRUE)

\* C30 witness: a tab was just moved among three open tabs, one of them an
\* opened file, after text tab 2 was closed: the text numbers in use are 1
\* and 3 and the drawing number in use is 1.
C30_Witness ==
    /\ phase = "running" /\ ~session_file.exists
    /\ last.op = "on_tab_motion"
    /\ Len(tabs) = 3
    /\ \E k \in 1..3 : tabs[k].file_path # ""
    /\ used_text_tab_numbers = {1, 3}
    /\ used_drawing_tab_numbers = {1}

\* C31: current_tab_index is always a position of an open tab; after a tab
\* is created it is the position of the new tab, the last one, and after the
\* only tab is closed it is 0.
C31_CurrentIndexIsValid ==
    /\ [](phase = "running" => (0 <= current_tab_index /\ current_tab_index < Len(tabs)))
    /\ [][ /\ last'.op \in {"new_text_tab", "new_drawing_tab", "open_file"} =>
                current_tab_index' = Len(tabs')  - 1
           /\ (last'.op = "close_tab" /\ Len(tabs) = 1) => current_tab_index' = 0
         ]_vars

\* C31 witness: the only open tab, text tab 1, was just closed, and the tab
\* that replaces it (again numbered 1) is at the current index, 0.
C31_Witness ==
    /\ last.op = "close_tab" /\ last.number = 1 /\ ~last.is_drawing
    /\ Len(tabs) = 1
    /\ ~tabs[1].is_drawing /\ tabs[1].tab_number = 1
    /\ current_tab_index = 0

\* the link reference of the tab t, which names a tab of the other kind
LinkReference(t) ==
    IF t.is_drawing THEN t.linked_text_tab_name ELSE t.linked_drawing_tab_name

\* the reference of the tab t names the tab u
Names(t, u) == LinkReference(t) # "" /\ t.is_drawing # u.is_drawing /\ LinkReference(t) = u.name

\* C32: after one tab of a linked pair is closed the partner's reference is
\* empty or names no open tab, and a tab created later, which no tab was
\* ever linked to, is named by no tab's reference, also when it takes the
\* number and the default name of the closed tab.
C32_NoReferenceToWrongTab ==
    [][ /\ last'.op = "close_tab" =>
              \A index \in 0..(Len(tabs) - 1), k \in 1..Len(tabs) :
                  ( /\ Len(tabs) > 1
                    /\ tabs' = close_tab(Reg, index).tabs
                    /\ k # index + 1
                    /\ Names(tabs[k], tabs[index + 1]) )
                  => LET partner == Pop(tabs, index)[IF k > index + 1 THEN k - 1 ELSE k]
                     IN  \A j \in 1..Len(tabs') : ~Names(partner, tabs'[j])
        /\ last'.op \in {"new_text_tab", "new_drawing_tab"} =>
              \A k \in 1..Len(tabs) : ~Names(tabs'[k], tabs'[Len(tabs')])
      ]_vars

\* the greatest element of a non-empty set of numbers
Highest(S) == CHOOSE k \in S : \A j \in S : j <= k

\* the background the widget shows at an offset: that of the highlight tag
\* of the highest priority on it, "" where there is none
ResolvedBackground(t, offset) ==
    LET covering == HighlightTagsAt(t, offset)
    IN  IF covering = {} THEN "" ELSE t.highlights[Highest(covering)].background

\* the font the widget shows at an offset: that of the format tag of the
\* highest priority on it
DisplayedFont(t, offset) ==
    LET covering == FormatTagsAt(t, offset)
    IN  IF covering = {} THEN base_font ELSE t.tags[Highest(covering)].font

\* C33: a toggle of bold, italic or underline changes the highlight colour
\* resolved at no offset, and apply_highlight and remove_highlight change at
\* no offset the font the widget shows nor the font get_selection_font gives.
C33_FormatAndHighlightIndependent ==
    [][ LET t == tabs[current_tab_index + 1]
            u == tabs'[current_tab_index + 1]
        IN  /\ last'.op \in {"toggle_bold", "toggle_italic", "toggle_underline"} =>
                  \A offset \in 0..(Len(t.text) - 1) :
                      ResolvedBackground(u, offset) = ResolvedBackground(t, offset)
            /\ last'.op \in {"apply_highlight", "remove_highlight"} =>
                  \A offset \in 0..(Len(t.text) - 1) :
                      /\ DisplayedFont(u, offset) = DisplayedFont(t, offset)
                      /\ get_selection_font(u, offset) = get_selection_font(t, offset)
      ]_vars

\* C33 witness: bold was just toggled on a selection that begins on a
\* highlighted character, which is still highlighted and now bold.
C33_Witness ==
    /\ last.op = "toggle_bold"
    /\ OnText
    /\ LET t == tabs[current_tab_index + 1]
       IN  /\ ResolvedBackground(t, last.point[1]) # ""
           /\ DisplayedFont(t, last.point[1]).weight = "bold"

FormatOps == {"toggle_bold", "toggle_italic", "toggle_underline"}

SameFontsOn(t, u, sel_start, sel_end) ==
    \A offset \in sel_start..(sel_end - 1) : DisplayedFont(u, offset) = DisplayedFont(t, offset)

\* C35: in every state, for every selection [s,e) of the current text tab,
\* toggling bold twice in a row on [s,e) gives back on every offset of [s,e)
\* the weight, slant and underline shown there before, and likewise italic
\* and underline, whether or not the selection is uniformly formatted.
C35_ToggleTwiceRestores ==
    OnText =>
        \A sel \in Selections :
            LET t == tabs[current_tab_index + 1]
                Twice(toggle(_, _, _)) ==
                    toggle(toggle(Reg, sel[1], sel[2]), sel[1], sel[2]).tabs[current_tab_index + 1]
            IN  /\ SameFontsOn(t, Twice(toggle_bold), sel[1], sel[2])
                /\ SameFontsOn(t, Twice(toggle_italic), sel[1], sel[2])
                /\ SameFontsOn(t, Twice(toggle_underline), sel[1], sel[2])

\* C36: a motion or release event on a canvas on which no stroke is in
\* progress changes nothing: the image, the items of the canvas (the preview
\* among them), the anchor and the last sample are as before, and no stroke
\* is in progress after it.
C36_IdleEventsChangeNothing ==
    [][ ( /\ last'.op \in {"on_mouse_move", "on_mouse_release"}
          /\ OnCanvas
          /\ ~Shown.canvas.drawing )
        => LET t == tabs[nb_current + 1]
               u == tabs'[nb_current + 1]
           IN  /\ u.image = t.image
               /\ u.canvas.items = t.canvas.items
               /\ u.canvas.start = t.canvas.start
               /\ u.canvas.last = t.canvas.last
               /\ ~u.canvas.drawing
      ]_vars

\* C36 witness: a release event came with the line tool chosen and no
\* stroke in progress: the canvas holds strokes and none of them ends at
\* the point of the release.
C36_Witness ==
    /\ last.op = "on_mouse_release"
    /\ OnCanvas
    /\ Shown.canvas.mode = "line"
    /\ ~Shown.canvas.drawing
    /\ Shown.canvas.items # <<>>
    /\ Shown.image.ops # <<>>
    /\ \A k \in 1..Len(Shown.canvas.items) : Shown.canvas.items[k].to # last.point

====
